---- MODULE Spec2Model ----
(***************************************************************************)
(* A model of clipper.py (IntelligentVideoClipper): the segment selector   *)
(* (_score_and_rank_segments, _remove_overlaps), the command runner        *)
(* (_run_command_with_retry) and the acquisition pipeline                  *)
(* (_download_video, the seven strategies, _create_fallback_video,         *)
(* process, main).                                                         *)
(*                                                                         *)
(* Three specifications share the variables:                               *)
(*   SpecSelect  one call of _score_and_rank_segments on drawn inputs      *)
(*   SpecRunner  one call of _run_command_with_retry with a drawn budget   *)
(*   Spec        one run of main/process, the strategies calling the       *)
(*               runner with its default budget                            *)
(*                                                                         *)
(* Numbers.  Times and durations are whole seconds.  A score is an exact   *)
(* rational [n, d] in lowest terms (Python uses binary floats; rounding is *)
(* not modelled, so 0.8 * 1.5 and 1.0 * 1.2 compare equal here).           *)
(***************************************************************************)
EXTENDS Integers, Sequences, FiniteSets, TLC

(* ------------------------------------------------------------------ *)
(* Bounds of the model                                                  *)
(* ------------------------------------------------------------------ *)

\* segments per input list of the selector
MaxSegs == 3
\* latest end time of a segment, in seconds
MaxTime == 2
\* largest target_clip_duration drawn
MaxHorizon == 4
\* lines of the ffprobe output read by the speech detector
MaxLines == 4

MaxTarget == 3
\* largest max_retries drawn for a direct call of the runner
MaxRetriesBound == 5
\* most phrases in the captured error text of one execution
MaxStderr == 2
\* most segments the analyzer finds in a run of process
MaxFound == 2

(* ------------------------------------------------------------------ *)
(* Arithmetic helpers                                                   *)
(* ------------------------------------------------------------------ *)

Abs(x) == IF x < 0 THEN 0 - x ELSE x

Max(a, b) == IF a >= b THEN a ELSE b

Min(a, b) == IF a <= b THEN a ELSE b

RECURSIVE GCD(_, _)
GCD(a, b) == IF b = 0 THEN a ELSE GCD(b, a % b)

\* the rational n/d (n >= 0, d > 0) in lowest terms
Rat(n, d) == LET g == GCD(n, d) IN [n |-> n \div g, d |-> d \div g]

RatMul(a, b) == Rat(a.n * b.n, a.d * b.d)

RatLess(a, b) == a.n * b.d < b.n * a.d

RatLeq(a, b) == a.n * b.d <= b.n * a.d

RECURSIVE Pow2(_)
Pow2(k) == IF k = 0 THEN 1 ELSE 2 * Pow2(k - 1)

(* ------------------------------------------------------------------ *)
(* State                                                                *)
(* ------------------------------------------------------------------ *)

VARIABLES
    \* --- one call of _score_and_rank_segments ---
    segments,      \* the argument: a list of SceneInfo
    clipping,      \* config.clipping, the fields the selector reads
    selPc,         \* "idle" | "call" | "returned" | "raised"
    ranked,        \* the list returned (<< >> until it returns)
    \* --- one call of _run_command_with_retry ---
    caller,        \* who called: "none" | "direct" | "strategy" | "fallback"
    max_retries,   \* the parameter
    attempt,       \* the loop variable of "for attempt in range(max_retries)"
    runPc,         \* "idle" | "loop" | "sleep" | "returned" | "raised"
    runResult,     \* the (success, output) pair returned
    execs,         \* how often subprocess.run was called in this call
    sleeps,        \* the time.sleep arguments of this call, in order
    lastOutcome,   \* how the latest subprocess.run ended
    \* --- one run of main / process ---
    pc,              \* where process is
    environ,         \* which cookie files exist, and YOUTUBE_COOKIES
    config,          \* Config: fallback_enabled, cleanup_temp_files
    cookies_file,    \* the local of _download_video
    i,               \* the loop variable of _download_video (from 1)
    download_result, \* what _download_video returned
    fallback_result, \* what _create_fallback_video returned
    temp_dir,        \* "none" | "exists" | "removed" | "left" (rmtree raised)
    found,           \* len(segments) after analysis
    selected,        \* len(ranked_segments)
    pending,         \* what process is about to return
    process_result,  \* what process returned
    exit_status,     \* << >> until main returns, then <<0>> or <<1>>
    \* --- what happened, in order ---
    invoked,         \* the strategies called, in order
    executed,        \* the strategies whose command was executed
    cooldowns,       \* the time.sleep arguments of _download_video
    succeeded_with,  \* the strategy that returned True, or "none"
    fallback_calls,  \* calls of _create_fallback_video
    stages,          \* the later stages entered
    \* --- one call of _analyze_video_content ---
    anPc,            \* which step of the analysis is next
    analysis,        \* config.clipping, the fields the analyzer reads
    timestamps,      \* the pts_time values of the scene command's output
    lines,           \* the RMS_level fields of the ffprobe output, by line
    all_segments,    \* the local of _analyze_video_content
    audio_segments,  \* the local of analyze_audio
    detected,        \* the detectors run with what each returned, in order
    commands         \* the analysis commands run with how each ended, in order

selVars == <<segments, clipping, selPc, ranked>>

runVars == <<caller, max_retries, attempt, runPc, runResult, execs, sleeps, lastOutcome>>

procVars == <<pc, environ, config, cookies_file, i, download_result, fallback_result,
              temp_dir, found, selected, pending, process_result, exit_status>>

histVars == <<invoked, executed, cooldowns, succeeded_with, fallback_calls, stages>>

anVars == <<anPc, analysis, timestamps, lines, all_segments, audio_segments,
            detected, commands>>

(* ------------------------------------------------------------------ *)
(* SceneInfo and ClippingConfig                                         *)
(* ------------------------------------------------------------------ *)

\* SceneInfo(start_time, end_time, duration, score, clip_type, metadata)
SceneInfo(st, en, du, sc, ty, md) ==
    [start_time |-> st, end_time |-> en, duration |-> du,
     score |-> sc, clip_type |-> ty, metadata |-> md]

\* the segment detect_scenes emits for the timestamp pair (st, en): score 1.0
SceneSegment(st, en) ==
    SceneInfo(st, en, en - st, Rat(10, 10), "scene_change", "ffmpeg_scene_detect")

\* the segment _detect_speech_segments emits for the run (st, en): score 0.8
SpeechSegment(st, en) ==
    SceneInfo(st, en, en - st, Rat(8, 10), "speech", "rms_level")

\* every segment a detector can hand to the selector within MaxTime
DetectorSegments ==
    { SceneSegment(st, en) : st \in 0..(MaxTime - 1), en \in 1..MaxTime }
    \cup { SpeechSegment(st, en) : st \in 0..(MaxTime - 1), en \in 1..MaxTime }

ProperSegments == { s \in DetectorSegments : s.start_time < s.end_time }

SegmentLists == UNION { [1..n -> ProperSegments] : n \in 0..MaxSegs }

\* the fields of ClippingConfig read by the selector; max_clips and
\* target_clip_duration are unvalidated numbers of the config file or the
\* command line (--max-clips -1 is accepted by main)
ClippingConfigs ==
    [target_clip_duration : 0..MaxTarget,
     max_clips : (0 - 1)..MaxSegs,
     prefer_speech : BOOLEAN,
     prefer_faces : BOOLEAN,
     prefer_motion : BOOLEAN]

\* the configs for lists of detector segments: these are scene_change and
\* speech segments, for which prefer_faces and prefer_motion are never
\* read, so the two stay at their defaults (True)
SelectorConfigs ==
    { c \in ClippingConfigs : c.prefer_faces /\ c.prefer_motion }

(* ------------------------------------------------------------------ *)
(* The selector                                                         *)
(* ------------------------------------------------------------------ *)

\* (variant: the slice forgotten, the whole list returned)
PySliceForgotten(s, k) == s

\* (variant: the last k elements are kept, as s[-k:] would for k > 0)
PySliceSuffix(s, k) ==
    IF k >= 0 THEN SubSeq(s, Len(s) - Min(k, Len(s)) + 1, Len(s))
    ELSE SubSeq(s, 1, Max(Len(s) + k, 0))

\* Python's s[:k]: the first k elements, or all but the last -k when k < 0
PySlicePrefix(s, k) ==
    IF k >= 0 THEN SubSeq(s, 1, Min(k, Len(s)))
    ELSE SubSeq(s, 1, Max(Len(s) + k, 0))

\* (variant: the bonuses are applied whatever the prefer_* flags say)
KindMultiplierUnconditional(seg, c) ==
    IF seg.clip_type = "speech" THEN 15
    ELSE IF seg.clip_type = "face_detection" THEN 13
    ELSE IF seg.clip_type = "motion" THEN 12
    ELSE 10

\* (variant: the face bonus is tested against prefer_speech)
KindMultiplierFacesBySpeech(seg, c) ==
    IF seg.clip_type = "speech" /\ c.prefer_speech THEN 15
    ELSE IF seg.clip_type = "face_detection" /\ c.prefer_speech THEN 13
    ELSE IF seg.clip_type = "motion" /\ c.prefer_motion THEN 12
    ELSE 10

\* the preference bonus, in tenths
KindMultiplier(seg, c) ==
    IF seg.clip_type = "speech" /\ c.prefer_speech THEN 15
    ELSE IF seg.clip_type = "face_detection" /\ c.prefer_faces THEN 13
    ELSE IF seg.clip_type = "motion" /\ c.prefer_motion THEN 12
    ELSE 10

\* (variant: the factor is floored at 0 instead of 0.5)
DurationFactorFloorZero(seg, c) ==
    LET T == c.target_clip_duration
    IN  Rat(Max(0, T - Abs(seg.duration - T)), T)

\* max(0.5, 1 - abs(duration - target) / target), for target > 0
DurationFactor(seg, c) ==
    LET T == c.target_clip_duration
    IN  Rat(Max(T, 2 * (T - Abs(seg.duration - T))), 2 * T)

\* (variant: the new SceneInfo is built without the metadata of the old one)
RescoreWithoutMetadata(seg, c) ==
    SceneInfo(seg.start_time, seg.end_time, seg.duration,
              RatMul(RatMul(seg.score, Rat(KindMultiplier(seg, c), 10)),
                     DurationFactor(seg, c)),
              seg.clip_type, "none")

\* the body of the rescoring loop: a new SceneInfo with the new score
Rescore(seg, c) ==
    SceneInfo(seg.start_time, seg.end_time, seg.duration,
              RatMul(RatMul(seg.score, Rat(KindMultiplier(seg, c), 10)),
                     DurationFactor(seg, c)),
              seg.clip_type, seg.metadata)

ScoredSegments(segs, c) == [k \in 1..Len(segs) |-> Rescore(segs[k], c)]

\* (variant: x goes in front of the elements of equal score, which reverses
\* the input order of ties)
InsertByScoreUnstable(sorted, x) ==
    LET k == Cardinality({ j \in 1..Len(sorted) : RatLess(x.score, sorted[j].score) })
    IN  SubSeq(sorted, 1, k) \o <<x>> \o SubSeq(sorted, k + 1, Len(sorted))

\* where x goes in a list already sorted by descending score: behind every
\* element whose score is not lower (list.sort is stable, also reversed)
InsertByScore(sorted, x) ==
    LET k == Cardinality({ j \in 1..Len(sorted) : RatLeq(x.score, sorted[j].score) })
    IN  SubSeq(sorted, 1, k) \o <<x>> \o SubSeq(sorted, k + 1, Len(sorted))

\* (variant: reverse=True forgotten, the list sorted by ascending score)
RECURSIVE SortByScoreAscending(_)
SortByScoreAscending(segs) ==
    IF segs = << >> THEN << >>
    ELSE LET sorted == SortByScoreAscending(SubSeq(segs, 1, Len(segs) - 1))
             x == segs[Len(segs)]
             k == Cardinality({ j \in 1..Len(sorted) : RatLeq(sorted[j].score, x.score) })
         IN  SubSeq(sorted, 1, k) \o <<x>> \o SubSeq(sorted, k + 1, Len(sorted))

RECURSIVE SortByScoreDesc(_)
SortByScoreDesc(segs) ==
    IF segs = << >> THEN << >>
    ELSE InsertByScore(SortByScoreDesc(SubSeq(segs, 1, Len(segs) - 1)),
                       segs[Len(segs)])

\* (variant: only a segment starting inside an accepted one is an overlap)
OverlapsStartInside(segment, existing) ==
    /\ segment.start_time >= existing.start_time
    /\ segment.start_time < existing.end_time

\* (variant: segments that only touch count as overlapping)
OverlapsTouching(segment, existing) ==
    ~ (segment.end_time < existing.start_time
       \/ segment.start_time > existing.end_time)

\* the overlap test of _remove_overlaps
Overlaps(segment, existing) ==
    ~ (segment.end_time <= existing.start_time
       \/ segment.start_time >= existing.end_time)

\* the loop of _remove_overlaps over segs[k..], non_overlapping so far
RECURSIVE RemoveFrom(_, _, _)
RemoveFrom(segs, k, non_overlapping) ==
    IF k > Len(segs) THEN non_overlapping
    ELSE IF \E j \in 1..Len(non_overlapping) : Overlaps(segs[k], non_overlapping[j])
         THEN RemoveFrom(segs, k + 1, non_overlapping)
         ELSE RemoveFrom(segs, k + 1, Append(non_overlapping, segs[k]))

\* (variant: a segment is compared with the last accepted one only)
remove_overlaps_last_only(segs) ==
    LET RECURSIVE Walk(_, _)
        Walk(k, acc) ==
            IF k > Len(segs) THEN acc
            ELSE IF Overlaps(segs[k], acc[Len(acc)])
                 THEN Walk(k + 1, acc)
                 ELSE Walk(k + 1, Append(acc, segs[k]))
    IN  IF segs = << >> THEN << >> ELSE Walk(2, <<segs[1]>>)

\* (variant: break instead of continue, the walk ends at the first
\* candidate that overlaps an accepted one)
remove_overlaps_until_first_overlap(segs) ==
    LET RECURSIVE Walk(_, _)
        Walk(k, acc) ==
            IF k > Len(segs) THEN acc
            ELSE IF \E j \in 1..Len(acc) : Overlaps(segs[k], acc[j])
                 THEN acc
                 ELSE Walk(k + 1, Append(acc, segs[k]))
    IN  IF segs = << >> THEN << >> ELSE Walk(2, <<segs[1]>>)

remove_overlaps(segs) ==
    IF segs = << >> THEN << >> ELSE RemoveFrom(segs, 2, <<segs[1]>>)

\* (variant: the division is done once before the loop, so also for no
\* segments)
ScoreRaisesWithoutSegments(segs, c) == c.target_clip_duration = 0

\* the rescoring loop divides by target_clip_duration once per segment
ScoreRaises(segs, c) == segs # << >> /\ c.target_clip_duration = 0

\* what follows the rescoring loop: sort, _remove_overlaps, the slice
select_ranked(scored_segments, c) ==
    PySlicePrefix(remove_overlaps(SortByScoreDesc(scored_segments)), c.max_clips)

score_and_rank_segments(segs, c) == select_ranked(ScoredSegments(segs, c), c)

\* the call: it returns the list, or raises ZeroDivisionError
ScoreAndRank ==
    /\ selPc = "call"
    /\ IF ScoreRaises(segments, clipping)
       THEN /\ selPc' = "raised"
            /\ ranked' = << >>
       ELSE /\ selPc' = "returned"
            /\ ranked' = score_and_rank_segments(segments, clipping)
    /\ UNCHANGED <<segments, clipping>>

SelectInit ==
    /\ segments \in SegmentLists
    /\ clipping \in SelectorConfigs
    /\ selPc = "call"
    /\ ranked = << >>

SelectIdle ==
    /\ segments = << >>
    /\ clipping = [target_clip_duration |-> 1, max_clips |-> 0,
                   prefer_speech |-> TRUE, prefer_faces |-> TRUE,
                   prefer_motion |-> TRUE]
    /\ selPc = "idle"
    /\ ranked = << >>

\* the clip types named by SceneInfo, and the one the speech detector adds
ClipTypes == {"scene_change", "audio_peak", "motion", "face_detection", "speech"}

\* raw scores in tenths: 0, and the values below and at 1.0
RawScores == {0, 5, 8, 10}

\* any SceneInfo: duration is a field of its own, here from 0 to 2 * MaxTime
AnySegments ==
    { SceneInfo(st, st + du, du, Rat(r, 10), ty, "any") :
        st \in 0..MaxTime, du \in 0..(2 * MaxTime), r \in RawScores, ty \in ClipTypes }

\* a call of _score_and_rank_segments with one segment of any kind
RescoreInit ==
    /\ segments \in { <<s>> : s \in AnySegments }
    /\ clipping \in ClippingConfigs
    /\ selPc = "call"
    /\ ranked = << >>

\* detector segments on a longer time line, 0..MaxHorizon
HorizonSegments ==
    { SceneSegment(st, en) : st \in 0..(MaxHorizon - 1), en \in 1..MaxHorizon }
    \cup { SpeechSegment(st, en) : st \in 0..(MaxHorizon - 1), en \in 1..MaxHorizon }

\* the lists of them, in any order, in which no two segments share time
DisjointLists ==
    { l \in UNION { [1..n -> { s \in HorizonSegments : s.start_time < s.end_time }] :
                       n \in 0..MaxSegs } :
        \A a, b \in 1..Len(l) :
            a # b => \/ l[a].end_time <= l[b].start_time
                     \/ l[b].end_time <= l[a].start_time }

\* a call of _score_and_rank_segments with candidates that do not overlap
DisjointInit ==
    /\ segments \in DisjointLists
    /\ clipping \in SelectorConfigs
    /\ selPc = "call"
    /\ ranked = << >>

\* the configs whose max_clips is no less than the number of candidates:
\* final_segments[:max_clips] is then the whole of final_segments
UntruncatedConfigs == { c \in SelectorConfigs : c.max_clips = MaxSegs }

\* a call of _score_and_rank_segments that returns what _remove_overlaps
\* returned
UntruncatedInit ==
    /\ segments \in SegmentLists
    /\ clipping \in UntruncatedConfigs
    /\ selPc = "call"
    /\ ranked = << >>


(* ------------------------------------------------------------------ *)
(* The command runner: _run_command_with_retry                          *)
(* ------------------------------------------------------------------ *)

\* a text is a list of phrases; "x in text" is "x is one of them"
ErrPhrases == {"ERROR", "Video unavailable", "Private video"}

Texts == UNION { [1..n -> ErrPhrases] : n \in 0..MaxStderr }

\* e.stderr: None, or the captured error text
PyNone == [none |-> TRUE, text |-> << >>]

Captured(t) == [none |-> FALSE, text |-> t]

Stderrs == {PyNone} \cup { Captured(t) : t \in Texts }

\* result.stdout
Stdouts == {<< >>, <<"output">>}

\* how one subprocess.run(cmd, check=True, timeout=300) can end
Outcomes ==
    [kind : {"ok"}, stdout : Stdouts, stderr : {PyNone}]
    \cup [kind : {"timeout", "error"}, stdout : {<< >>}, stderr : Stderrs]
    \cup [kind : {"oserror"}, stdout : {<< >>}, stderr : {PyNone}]

NoOutcome == [kind |-> "none", stdout |-> << >>, stderr |-> PyNone]

NoResult == [success |-> FALSE, output |-> <<"unset">>]

\* str(x): the text of x, and the text "None" for None
PyStr(x) == IF x.none THEN <<"None">> ELSE x.text

\* phrase in text
PyIn(phrase, text) == \E k \in 1..Len(text) : text[k] = phrase

\* what the try/except makes of an outcome
ClassifyTimeoutFatal(o) ==
    CASE o.kind = "ok" -> "success"
      [] o.kind = "oserror" -> "raise"
      [] OTHER -> IF PyIn("Video unavailable", PyStr(o.stderr))
                  \/ PyIn("Private video", PyStr(o.stderr))
                  THEN "fatal" ELSE "retryable"

ClassifyNoFatal(o) ==
    CASE o.kind = "ok" -> "success"
      [] o.kind = "oserror" -> "raise"
      [] OTHER -> "retryable"

Classify(o) ==
    CASE o.kind = "ok" -> "success"
      [] o.kind = "timeout" -> "retryable"
      [] o.kind = "error" ->
            IF PyIn("Video unavailable", PyStr(o.stderr))
                  \/ PyIn("Private video", PyStr(o.stderr))
            THEN "fatal" ELSE "retryable"
      [] o.kind = "oserror" -> "raise"

\* attempt in range(max_retries)
InRangeInclusive(a, m) == a >= 0 /\ a <= m

\* (variant: a do-while loop, the first pass is made before the budget is
\* looked at)
InRangeAtLeastOnce(a, m) == a = 0 \/ (a >= 0 /\ a < m)

InRange(a, m) == a >= 0 /\ a < m

\* wait_time = 2 ** attempt
BackoffWaitLinear(a) == 2 * a

BackoffWait(a) == Pow2(a)

\* the call itself: the parameters bound, the loop not yet entered
RunCall(who, m) ==
    /\ caller' = who
    /\ max_retries' = m
    /\ attempt' = 0
    /\ runPc' = "loop"
    /\ runResult' = NoResult
    /\ execs' = 0
    /\ sleeps' = << >>
    /\ lastOutcome' = NoOutcome

\* the locals of a call that is over
RunIdle ==
    /\ caller = "none"
    /\ max_retries = 0
    /\ attempt = 0
    /\ runPc = "idle"
    /\ runResult = NoResult
    /\ execs = 0
    /\ sleeps = << >>
    /\ lastOutcome = NoOutcome

RunForget ==
    /\ caller' = "none"
    /\ max_retries' = 0
    /\ attempt' = 0
    /\ runPc' = "idle"
    /\ runResult' = NoResult
    /\ execs' = 0
    /\ sleeps' = << >>
    /\ lastOutcome' = NoOutcome

\* one pass of the loop body up to its return, its raise, its sleep or,
\* on the last attempt, the end of the loop
RunAttempt ==
    /\ runPc = "loop"
    /\ InRange(attempt, max_retries)
    /\ \E o \in Outcomes :
        /\ execs' = execs + 1
        /\ lastOutcome' = o
        /\ CASE Classify(o) = "success" ->
                    /\ runResult' = [success |-> TRUE, output |-> o.stdout]
                    /\ runPc' = "returned"
                    /\ UNCHANGED attempt
             [] Classify(o) = "fatal" ->
                    /\ runResult' = [success |-> FALSE, output |-> o.stderr.text]
                    /\ runPc' = "returned"
                    /\ UNCHANGED attempt
             [] Classify(o) = "raise" ->
                    /\ runPc' = "raised"
                    /\ UNCHANGED <<attempt, runResult>>
             [] Classify(o) = "retryable" ->
                    IF attempt < max_retries - 1
                    THEN /\ runPc' = "sleep"
                         /\ UNCHANGED <<attempt, runResult>>
                    ELSE /\ attempt' = attempt + 1
                         /\ runPc' = "loop"
                         /\ UNCHANGED runResult
    /\ UNCHANGED <<caller, max_retries, sleeps>>

\* time.sleep(wait_time), then the next pass
RunBackoff ==
    /\ runPc = "sleep"
    /\ sleeps' = Append(sleeps, BackoffWait(attempt))
    /\ attempt' = attempt + 1
    /\ runPc' = "loop"
    /\ UNCHANGED <<caller, max_retries, runResult, execs, lastOutcome>>

\* the loop is over: return False, "Max retries exceeded"
RunExhausted ==
    /\ runPc = "loop"
    /\ ~ InRange(attempt, max_retries)
    /\ runResult' = [success |-> FALSE, output |-> <<"Max retries exceeded">>]
    /\ runPc' = "returned"
    /\ UNCHANGED <<caller, max_retries, attempt, execs, sleeps, lastOutcome>>

RunnerInit ==
    /\ caller = "direct"
    /\ max_retries \in 0..MaxRetriesBound
    /\ attempt = 0
    /\ runPc = "loop"
    /\ runResult = NoResult
    /\ execs = 0
    /\ sleeps = << >>
    /\ lastOutcome = NoOutcome

\* a call with any int for max_retries, the non-positive ones included:
\* the parameter is not validated
RunnerInitAnyBudget ==
    /\ caller = "direct"
    /\ max_retries \in (0 - 2)..MaxRetriesBound
    /\ attempt = 0
    /\ runPc = "loop"
    /\ runResult = NoResult
    /\ execs = 0
    /\ sleeps = << >>
    /\ lastOutcome = NoOutcome


(* ------------------------------------------------------------------ *)
(* The acquisition pipeline and process                                 *)
(* ------------------------------------------------------------------ *)

\* self.download_strategies, in its order
download_strategies ==
    <<"_strategy_tv_embedded", "_strategy_android_client",
      "_strategy_browser_cookies", "_strategy_web_client",
      "_strategy_alternative_url", "_strategy_minimal",
      "_strategy_proxy_headers">>

\* the strategies that begin with "if not cookies_file: return False"
NeedsNoCookies(name) == FALSE

NeedsCookies(name) ==
    name \in {"_strategy_tv_embedded", "_strategy_android_client"}

\* the default of the parameter max_retries, which every caller leaves alone
DefaultMaxRetries == 3

BaseDelay == 3

CapDelay == 10

\* wait_time = min(3 + i, 10), i counted from 1
CooldownWaitFromZero(k) == Min(BaseDelay + (k - 1), CapDelay)

CooldownWait(k) == Min(BaseDelay + k, CapDelay)

\* the environments _find_cookies can meet
Environs ==
    [home_cookies : BOOLEAN, cwd_cookies : BOOLEAN,
     YOUTUBE_COOKIES : {"unset", "file", "missing"}]

\* _find_cookies: the first location that exists; Path("") is Path("."),
\* which exists
find_cookies(e) ==
    IF e.home_cookies THEN "~/.config/yt-dlp/cookies.txt"
    ELSE IF e.cwd_cookies THEN "./cookies.txt"
    ELSE CASE e.YOUTUBE_COOKIES = "file" -> "$YOUTUBE_COOKIES"
           [] e.YOUTUBE_COOKIES = "unset" -> "."
           [] e.YOUTUBE_COOKIES = "missing" -> "None"

\* ClippingConfig.target_clip_duration: 30.0 unless the config file says
\* otherwise
DefaultTargetClipDuration == 30

\* the Config main hands to the clipper: Config.from_file builds it from the
\* JSON file as it is, and main overrides target_clip_duration only with a
\* non-zero --target-duration; nothing validates the values
Configs ==
    [fallback_enabled : BOOLEAN, cleanup_temp_files : BOOLEAN,
     target_clip_duration : {0, DefaultTargetClipDuration}]

\* raise inside "with self._managed_temp_dir()": the finally runs, then the
\* except clause of process returns False
RaiseInside ==
    /\ pending' = "false"
    /\ pc' = "cleanup"

\* raise before the with statement: process returns False
RaiseOutside ==
    /\ process_result' = "false"
    /\ pc' = "return"

\* _check_dependencies, and the VideoClipperError when a tool is missing
CheckDependencies ==
    /\ pc = "check_dependencies"
    /\ \/ /\ pc' = "setup_directories"
          /\ UNCHANGED process_result
       \/ RaiseOutside
    /\ UNCHANGED <<environ, config, cookies_file, i, download_result, fallback_result,
                   temp_dir, found, selected, pending, exit_status>>
    /\ UNCHANGED <<histVars, runVars>>

\* _setup_directories: the mkdir calls succeed or raise OSError
SetupDirectories ==
    /\ pc = "setup_directories"
    /\ \/ /\ pc' = "temp_dir"
          /\ UNCHANGED process_result
       \/ RaiseOutside
    /\ UNCHANGED <<environ, config, cookies_file, i, download_result, fallback_result,
                   temp_dir, found, selected, pending, exit_status>>
    /\ UNCHANGED <<histVars, runVars>>

\* entering _managed_temp_dir: tempfile.mkdtemp succeeds or raises
ManagedTempDirEnter ==
    /\ pc = "temp_dir"
    /\ \/ /\ temp_dir' = "exists"
          /\ pc' = "download"
          /\ UNCHANGED process_result
       \/ /\ RaiseOutside
          /\ UNCHANGED temp_dir
    /\ UNCHANGED <<environ, config, cookies_file, i, download_result, fallback_result,
                   found, selected, pending, exit_status>>
    /\ UNCHANGED <<histVars, runVars>>

\* _download_video up to the loop: cookies_file = self._find_cookies()
DownloadStart ==
    /\ pc = "download"
    /\ cookies_file' = find_cookies(environ)
    /\ i' = 1
    /\ pc' = "strategy"
    /\ UNCHANGED <<environ, config, download_result, fallback_result, temp_dir,
                   found, selected, pending, process_result, exit_status>>
    /\ UNCHANGED <<histVars, runVars>>

\* strategy(video_url, output_path, cookies_file): it returns False at once
\* without cookies if it needs them, else it calls the runner
StrategyCall ==
    /\ pc = "strategy"
    /\ invoked' = Append(invoked, download_strategies[i])
    /\ IF NeedsCookies(download_strategies[i]) /\ cookies_file = "None"
       THEN /\ pc' = "after_strategy"
            /\ UNCHANGED runVars
       ELSE /\ pc' = "in_strategy"
            /\ RunCall("strategy", DefaultMaxRetries)
    /\ UNCHANGED <<environ, config, cookies_file, i, download_result, fallback_result,
                   temp_dir, found, selected, pending, process_result, exit_status>>
    /\ UNCHANGED <<executed, cooldowns, succeeded_with, fallback_calls, stages>>

\* (variant: a successful strategy does not end the loop)
StrategyReturnNoStop ==
    /\ pc = "in_strategy"
    /\ runPc \in {"returned", "raised"}
    /\ IF runPc = "returned" /\ runResult.success
       THEN /\ succeeded_with' = download_strategies[i]
            /\ pc' = "after_strategy"
            /\ UNCHANGED download_result
       ELSE /\ pc' = "after_strategy"
            /\ UNCHANGED <<download_result, succeeded_with>>
    /\ RunForget
    /\ UNCHANGED <<environ, config, cookies_file, i, fallback_result,
                   temp_dir, found, selected, pending, process_result, exit_status>>
    /\ UNCHANGED <<invoked, executed, cooldowns, fallback_calls, stages>>

\* (variant: no "except Exception" around the strategy call, a raise ends
\* _download_video with a failure)
StrategyReturnRaiseEndsChain ==
    /\ pc = "in_strategy"
    /\ runPc \in {"returned", "raised"}
    /\ IF runPc = "returned" /\ runResult.success
       THEN /\ download_result' = "true"
            /\ succeeded_with' = download_strategies[i]
            /\ pc' = "validate"
       ELSE IF runPc = "raised"
       THEN /\ download_result' = "false"
            /\ pc' = "fallback"
            /\ UNCHANGED succeeded_with
       ELSE /\ pc' = "after_strategy"
            /\ UNCHANGED <<download_result, succeeded_with>>
    /\ RunForget
    /\ UNCHANGED <<environ, config, cookies_file, i, fallback_result,
                   temp_dir, found, selected, pending, process_result, exit_status>>
    /\ UNCHANGED <<invoked, executed, cooldowns, fallback_calls, stages>>

\* the runner returned or raised inside the strategy: on success
\* _download_video returns True; "except Exception" swallows a raise
StrategyReturn ==
    /\ pc = "in_strategy"
    /\ runPc \in {"returned", "raised"}
    /\ IF runPc = "returned" /\ runResult.success
       THEN /\ download_result' = "true"
            /\ succeeded_with' = download_strategies[i]
            /\ pc' = "validate"
       ELSE /\ pc' = "after_strategy"
            /\ UNCHANGED <<download_result, succeeded_with>>
    /\ RunForget
    /\ UNCHANGED <<environ, config, cookies_file, i, fallback_result,
                   temp_dir, found, selected, pending, process_result, exit_status>>
    /\ UNCHANGED <<invoked, executed, cooldowns, fallback_calls, stages>>

\* after a strategy that did not succeed, another one remaining:
\* time.sleep(min(3 + i, 10)), then the next strategy
Cooldown ==
    /\ pc = "after_strategy"
    /\ i < Len(download_strategies)
    /\ cooldowns' = Append(cooldowns, CooldownWait(i))
    /\ i' = i + 1
    /\ pc' = "strategy"
    /\ UNCHANGED <<environ, config, cookies_file, download_result, fallback_result,
                   temp_dir, found, selected, pending, process_result, exit_status>>
    /\ UNCHANGED <<invoked, executed, succeeded_with, fallback_calls, stages>>
    /\ UNCHANGED runVars

\* (variant: after the last failed strategy process goes on as if a video
\* had been downloaded, without the fallback)
DownloadFailedSkipsFallback ==
    /\ pc = "after_strategy"
    /\ ~ (i < Len(download_strategies))
    /\ download_result' = "false"
    /\ pc' = "validate"
    /\ UNCHANGED <<environ, config, cookies_file, i, fallback_result,
                   temp_dir, found, selected, pending, process_result, exit_status>>
    /\ UNCHANGED <<histVars, runVars>>

\* after the last strategy: _download_video returns False
DownloadFailed ==
    /\ pc = "after_strategy"
    /\ ~ (i < Len(download_strategies))
    /\ download_result' = "false"
    /\ pc' = "fallback"
    /\ UNCHANGED <<environ, config, cookies_file, i, fallback_result,
                   temp_dir, found, selected, pending, process_result, exit_status>>
    /\ UNCHANGED <<histVars, runVars>>

\* _create_fallback_video: False at once when disabled (and process raises
\* VideoClipperError), else the ffmpeg command through the runner
FallbackCall ==
    /\ pc = "fallback"
    /\ fallback_calls' = fallback_calls + 1
    /\ IF ~ config.fallback_enabled
       THEN /\ fallback_result' = "false"
            /\ RaiseInside
            /\ UNCHANGED runVars
       ELSE /\ RunCall("fallback", DefaultMaxRetries)
            /\ pc' = "in_fallback"
            /\ UNCHANGED <<fallback_result, pending>>
    /\ UNCHANGED <<environ, config, cookies_file, i, download_result,
                   temp_dir, found, selected, process_result, exit_status>>
    /\ UNCHANGED <<invoked, executed, cooldowns, succeeded_with, stages>>

\* (variant: the failure of the fallback is not raised)
FallbackReturnNoRaise ==
    /\ pc = "in_fallback"
    /\ runPc \in {"returned", "raised"}
    /\ fallback_result' = IF runPc = "raised" THEN "raised"
                          ELSE IF runResult.success THEN "true" ELSE "false"
    /\ pc' = "validate"
    /\ UNCHANGED pending
    /\ RunForget
    /\ UNCHANGED <<environ, config, cookies_file, i, download_result,
                   temp_dir, found, selected, process_result, exit_status>>
    /\ UNCHANGED histVars

\* the runner returned or raised inside _create_fallback_video: process
\* goes on with the fallback video, or raises VideoClipperError
FallbackReturn ==
    /\ pc = "in_fallback"
    /\ runPc \in {"returned", "raised"}
    /\ IF runPc = "returned" /\ runResult.success
       THEN /\ fallback_result' = "true"
            /\ pc' = "validate"
            /\ UNCHANGED pending
       ELSE /\ fallback_result' = IF runPc = "raised" THEN "raised" ELSE "false"
            /\ RaiseInside
    /\ RunForget
    /\ UNCHANGED <<environ, config, cookies_file, i, download_result,
                   temp_dir, found, selected, process_result, exit_status>>
    /\ UNCHANGED histVars

\* _validate_video: a failed validation only warns; its command may raise
ValidateVideo ==
    /\ pc = "validate"
    /\ stages' = stages \cup {"validate"}
    /\ \/ /\ pc' = "analyze"
          /\ UNCHANGED pending
       \/ RaiseInside
    /\ UNCHANGED <<environ, config, cookies_file, i, download_result, fallback_result,
                   temp_dir, found, selected, process_result, exit_status>>
    /\ UNCHANGED <<invoked, executed, cooldowns, succeeded_with, fallback_calls>>
    /\ UNCHANGED runVars

\* _analyze_video_content: some number of segments, or a raise
AnalyzeVideoContent ==
    /\ pc = "analyze"
    /\ stages' = stages \cup {"analyze"}
    /\ \/ /\ found' \in 0..MaxFound
          /\ pc' = "score"
          /\ UNCHANGED pending
       \/ /\ RaiseInside
          /\ UNCHANGED found
    /\ UNCHANGED <<environ, config, cookies_file, i, download_result, fallback_result,
                   temp_dir, selected, process_result, exit_status>>
    /\ UNCHANGED <<invoked, executed, cooldowns, succeeded_with, fallback_calls>>
    /\ UNCHANGED runVars

\* "if segments: ranked_segments = self._score_and_rank_segments(segments)"
\* which returns no more segments than it got, or, the target duration
\* being 0, raises ZeroDivisionError at the first segment
ScoreSegments ==
    /\ pc = "score"
    /\ IF found = 0
       THEN /\ selected' = 0
            /\ pc' = "clips"
            /\ UNCHANGED <<stages, pending>>
       ELSE /\ stages' = stages \cup {"select"}
            /\ IF config.target_clip_duration = 0
               THEN /\ RaiseInside
                    /\ UNCHANGED selected
               ELSE /\ selected' \in 0..found
                    /\ pc' = "clips"
                    /\ UNCHANGED pending
    /\ UNCHANGED <<environ, config, cookies_file, i, download_result, fallback_result,
                   temp_dir, found, process_result, exit_status>>
    /\ UNCHANGED <<invoked, executed, cooldowns, succeeded_with, fallback_calls>>
    /\ UNCHANGED runVars

\* _create_intelligent_clips: True, or False and VideoClipperError, or a raise
CreateClips ==
    /\ pc = "clips"
    /\ stages' = stages \cup {"clips"}
    /\ \/ /\ pc' = "finish"
          /\ UNCHANGED pending
       \/ RaiseInside
    /\ UNCHANGED <<environ, config, cookies_file, i, download_result, fallback_result,
                   temp_dir, found, selected, process_result, exit_status>>
    /\ UNCHANGED <<invoked, executed, cooldowns, succeeded_with, fallback_calls>>
    /\ UNCHANGED runVars

\* highlight reel, analysis report, file list, summary, "return True":
\* any of the file operations may raise
FinishRun ==
    /\ pc = "finish"
    /\ stages' = stages \cup {"report"}
    /\ \/ /\ pending' = "true"
          /\ pc' = "cleanup"
       \/ RaiseInside
    /\ UNCHANGED <<environ, config, cookies_file, i, download_result, fallback_result,
                   temp_dir, found, selected, process_result, exit_status>>
    /\ UNCHANGED <<invoked, executed, cooldowns, succeeded_with, fallback_calls>>
    /\ UNCHANGED runVars

\* (variant: no try/finally in _managed_temp_dir, the directory is removed
\* only when the body of the with statement ended without a raise)
ManagedTempDirExitNoFinally ==
    /\ pc = "cleanup"
    /\ IF config.cleanup_temp_files /\ temp_dir = "exists" /\ pending = "true"
       THEN \/ /\ temp_dir' = "removed"
               /\ process_result' = pending
            \/ /\ process_result' = "false"
               /\ temp_dir' = "left"
       ELSE /\ process_result' = pending
            /\ UNCHANGED temp_dir
    /\ pc' = "return"
    /\ UNCHANGED <<environ, config, cookies_file, i, download_result, fallback_result,
                   found, selected, pending, exit_status>>
    /\ UNCHANGED <<histVars, runVars>>

\* the finally of _managed_temp_dir, then the return of process: a raise of
\* shutil.rmtree leaves the directory behind, reaches "except Exception" and
\* process returns False
ManagedTempDirExit ==
    /\ pc = "cleanup"
    /\ IF config.cleanup_temp_files /\ temp_dir = "exists"
       THEN \/ /\ temp_dir' = "removed"
               /\ process_result' = pending
            \/ /\ process_result' = "false"
               /\ temp_dir' = "left"
       ELSE /\ process_result' = pending
            /\ UNCHANGED temp_dir
    /\ pc' = "return"
    /\ UNCHANGED <<environ, config, cookies_file, i, download_result, fallback_result,
                   found, selected, pending, exit_status>>
    /\ UNCHANGED <<histVars, runVars>>

\* main: return 0 if success else 1
MainReturn ==
    /\ pc = "return"
    /\ exit_status' = IF process_result = "true" THEN <<0>> ELSE <<1>>
    /\ pc' = "exited"
    /\ UNCHANGED <<environ, config, cookies_file, i, download_result, fallback_result,
                   temp_dir, found, selected, pending, process_result>>
    /\ UNCHANGED <<histVars, runVars>>

\* the runner's steps inside a run of process; executing a strategy's
\* command marks the strategy as executed
RunnerStep ==
    /\ pc \in {"in_strategy", "in_fallback"}
    /\ \/ /\ RunAttempt
          /\ executed' = IF caller = "strategy"
                         THEN executed \cup {download_strategies[i]}
                         ELSE executed
       \/ /\ RunBackoff
          /\ UNCHANGED executed
       \/ /\ RunExhausted
          /\ UNCHANGED executed
    /\ UNCHANGED procVars
    /\ UNCHANGED <<invoked, cooldowns, succeeded_with, fallback_calls, stages>>

ProcessIdle ==
    /\ pc = "idle"
    /\ environ = [home_cookies |-> FALSE, cwd_cookies |-> FALSE,
                  YOUTUBE_COOKIES |-> "unset"]
    /\ config = [fallback_enabled |-> TRUE, cleanup_temp_files |-> TRUE,
                 target_clip_duration |-> DefaultTargetClipDuration]
    /\ cookies_file = "unset"
    /\ i = 0
    /\ download_result = "pending"
    /\ fallback_result = "pending"
    /\ temp_dir = "none"
    /\ found = 0
    /\ selected = 0
    /\ pending = "none"
    /\ process_result = "pending"
    /\ exit_status = << >>
    /\ invoked = << >>
    /\ executed = {}
    /\ cooldowns = << >>
    /\ succeeded_with = "none"
    /\ fallback_calls = 0
    /\ stages = {}

ProcessInit ==
    /\ pc = "check_dependencies"
    /\ environ \in Environs
    /\ config \in Configs
    /\ cookies_file = "unset"
    /\ i = 0
    /\ download_result = "pending"
    /\ fallback_result = "pending"
    /\ temp_dir = "none"
    /\ found = 0
    /\ selected = 0
    /\ pending = "none"
    /\ process_result = "pending"
    /\ exit_status = << >>
    /\ invoked = << >>
    /\ executed = {}
    /\ cooldowns = << >>
    /\ succeeded_with = "none"
    /\ fallback_calls = 0
    /\ stages = {}

(* ------------------------------------------------------------------ *)
(* The content analyzer: ContentAnalyzer and _analyze_video_content     *)
(* ------------------------------------------------------------------ *)

\* ClippingConfig.audio_silence_threshold, in dB
DefaultSilenceThreshold == -40

\* how subprocess.run ends in _run_analysis_command: "error" is
\* CalledProcessError and "timeout" TimeoutExpired, both caught; "oserror"
\* stands for what is not caught (OSError, UnicodeDecodeError)
AnalysisOutcomes == {"ok", "error", "timeout", "oserror"}

\* (variant: TimeoutExpired is not caught)
RunAnalysisCommandTimeoutUncaught(o) ==
    CASE o = "ok" -> "success"
      [] o = "error" -> "failure"
      [] OTHER -> "raise"

\* _run_analysis_command: (True, stdout), or (False, "") for the two
\* exceptions it catches, or the exception it lets through
run_analysis_command(o) ==
    CASE o = "ok" -> "success"
      [] o \in {"error", "timeout"} -> "failure"
      [] OTHER -> "raise"

\* (variant: a gap must exceed min_clip_duration)
detect_scenes_strict(ts, c) ==
    LET RECURSIVE Loop(_, _)
        Loop(k, scenes) ==
            IF k > Len(ts) - 1 THEN scenes
            ELSE Loop(k + 1,
                      IF ts[k + 1] - ts[k] > c.min_clip_duration
                      THEN Append(scenes, SceneSegment(ts[k], ts[k + 1]))
                      ELSE scenes)
    IN  Loop(1, << >>)

\* "for i in range(len(timestamps) - 1)": consecutive pairs, those with
\* duration >= min_clip_duration appended
RECURSIVE SceneLoop(_, _, _, _)
SceneLoop(ts, k, c, scenes) ==
    IF k > Len(ts) - 1 THEN scenes
    ELSE LET start_time == ts[k]
             end_time == ts[k + 1]
             duration == end_time - start_time
         IN  SceneLoop(ts, k + 1, c,
                       IF duration >= c.min_clip_duration
                       THEN Append(scenes, SceneSegment(start_time, end_time))
                       ELSE scenes)

\* detect_scenes after a successful command, ts the timestamps parsed
detect_scenes(ts, c) == SceneLoop(ts, 1, c, << >>)

\* what stands after the comma of an output line; "garbage" is a line with
\* no comma or one that makes float() or the unpacking raise ValueError
RmsTexts == {"-30", "-40", "-50", "inf"}

LineTexts == RmsTexts \cup {"garbage"}

\* float(rms_level) if rms_level != 'inf' else -100
ParseRms(text) ==
    CASE text = "inf" -> -100
      [] text = "-30" -> -30
      [] text = "-40" -> -40
      [] text = "-50" -> -50

\* the timestamp of line k: one line per second, from 0
LineTime(k) == k - 1

\* the loop over the lines from line k; start is << >> for
\* current_speech_start = None, else <<current_speech_start>>
RECURSIVE SpeechLoop(_, _, _, _, _)
SpeechLoop(ls, k, c, start, speech_segments) ==
    IF k > Len(ls) THEN speech_segments
    ELSE IF ls[k] = "garbage" THEN SpeechLoop(ls, k + 1, c, start, speech_segments)
    ELSE LET timestamp == LineTime(k)
             rms_level == ParseRms(ls[k])
         IN  IF rms_level > c.audio_silence_threshold
             THEN SpeechLoop(ls, k + 1, c,
                             IF start = << >> THEN <<timestamp>> ELSE start,
                             speech_segments)
             ELSE IF start # << >>
                  THEN SpeechLoop(ls, k + 1, c, << >>,
                                  IF timestamp - start[1] >= c.min_clip_duration
                                  THEN Append(speech_segments,
                                              SpeechSegment(start[1], timestamp))
                                  ELSE speech_segments)
                  ELSE SpeechLoop(ls, k + 1, c, start, speech_segments)

\* _detect_speech_segments after both commands succeeded
detect_speech_segments(ls, c) == SpeechLoop(ls, 1, c, << >>, << >>)

\* the fields of ClippingConfig read by the analyzer
AnalysisConfigs ==
    [audio_analysis_enabled : BOOLEAN,
     detect_speech : BOOLEAN,
     detect_music : BOOLEAN,
     motion_analysis_enabled : BOOLEAN,
     face_detection_enabled : BOOLEAN,
     min_clip_duration : 1..MaxTime,
     audio_silence_threshold : {DefaultSilenceThreshold}]

\* the timestamps of a scene command's output: frame times, in frame order
SceneStreams ==
    { ts \in UNION { [1..n -> 0..MaxTime] : n \in 0..(MaxSegs + 1) } :
        \A k \in 1..(Len(ts) - 1) : ts[k] <= ts[k + 1] }

\* the lines of an ffprobe output
SpeechStreams == UNION { [1..n -> LineTexts] : n \in 0..MaxLines }

\* (variant: the new segments are put in front)
ExtendFront(list, more) == more \o list

\* list.extend
Extend(list, more) == list \o more

\* the step that follows scene detection, the audio analysis, the motion
\* analysis: the "if self.config.clipping...." tests in their order
AfterMotion(c) == IF c.face_detection_enabled THEN "faces" ELSE "returned"

AfterAudio(c) == IF c.motion_analysis_enabled THEN "motion" ELSE AfterMotion(c)

AfterSpeech(c) == IF c.detect_music THEN "music" ELSE "peaks"

AfterScenes(c) ==
    IF ~ c.audio_analysis_enabled THEN AfterAudio(c)
    ELSE IF c.detect_speech THEN "speech" ELSE AfterSpeech(c)

\* a detector returned segs
Returned(name, segs) == Append(detected, [detector |-> name, segments |-> segs])

\* the command of a detector ended as o
Ran(cmds, name, o) == Append(cmds, [detector |-> name, outcome |-> o])

\* get_video_info, then float(video_info['format'].get('duration', 0)),
\* which may raise ValueError
GetVideoInfo ==
    /\ anPc = "video_info"
    /\ \E o \in AnalysisOutcomes :
          /\ commands' = Ran(commands, "video_info", o)
          /\ anPc' \in CASE run_analysis_command(o) = "raise" -> {"raised"}
                         [] run_analysis_command(o) = "success" -> {"scenes", "raised"}
                         [] OTHER -> {"scenes"}
    /\ UNCHANGED <<analysis, timestamps, lines, all_segments, audio_segments,
                   detected>>

\* scenes = self.analyzer.detect_scenes(video_path); all_segments.extend(scenes)
DetectScenes ==
    /\ anPc = "scenes"
    /\ \E o \in AnalysisOutcomes :
          /\ commands' = Ran(commands, "scene_change", o)
          /\ IF run_analysis_command(o) = "raise"
             THEN /\ anPc' = "raised"
                  /\ UNCHANGED <<all_segments, detected>>
             ELSE LET scenes == IF run_analysis_command(o) = "success"
                                THEN detect_scenes(timestamps, analysis)
                                ELSE << >>
                  IN  /\ all_segments' = Extend(all_segments, scenes)
                      /\ detected' = Returned("scene_change", scenes)
                      /\ anPc' = AfterScenes(analysis)
    /\ UNCHANGED <<analysis, timestamps, lines, audio_segments>>

\* audio_segments.extend(self._detect_speech_segments(video_path)): the
\* volumedetect command, then, if it succeeded, the ffprobe command and
\* the loop over its lines
DetectSpeech ==
    /\ anPc = "speech"
    /\ \E o1, o2 \in AnalysisOutcomes :
          LET first == run_analysis_command(o1)
              second == run_analysis_command(o2)
              cmds == Ran(commands, "speech", o1)
          IN  /\ commands' = IF first = "success" THEN Ran(cmds, "speech", o2)
                             ELSE cmds
              /\ IF first = "raise" \/ (first = "success" /\ second = "raise")
                 THEN /\ anPc' = "raised"
                      /\ UNCHANGED <<audio_segments, detected>>
                 ELSE LET speech_segments ==
                              IF first = "success" /\ second = "success"
                              THEN detect_speech_segments(lines, analysis)
                              ELSE << >>
                      IN  /\ audio_segments' = Extend(audio_segments, speech_segments)
                          /\ detected' = Returned("speech", speech_segments)
                          /\ anPc' = AfterSpeech(analysis)
    /\ UNCHANGED <<analysis, timestamps, lines, all_segments>>

\* audio_segments.extend(self._detect_music_segments(video_path)): no
\* command is run, the list is empty
DetectMusic ==
    /\ anPc = "music"
    /\ audio_segments' = Extend(audio_segments, << >>)
    /\ detected' = Returned("music", << >>)
    /\ anPc' = "peaks"
    /\ UNCHANGED <<analysis, timestamps, lines, all_segments, commands>>

\* audio_segments.extend(self._detect_audio_peaks(video_path)), the return of
\* analyze_audio and all_segments.extend(audio_segments)
DetectAudioPeaks ==
    /\ anPc = "peaks"
    /\ \E o \in AnalysisOutcomes :
          /\ commands' = Ran(commands, "audio_peak", o)
          /\ IF run_analysis_command(o) = "raise"
             THEN /\ anPc' = "raised"
                  /\ UNCHANGED <<all_segments, audio_segments, detected>>
             ELSE /\ audio_segments' = Extend(audio_segments, << >>)
                  /\ all_segments' = Extend(all_segments, audio_segments')
                  /\ detected' = Returned("audio_peak", << >>)
                  /\ anPc' = AfterAudio(analysis)
    /\ UNCHANGED <<analysis, timestamps, lines>>

\* motion_segments = self.analyzer.analyze_motion(video_path): the command is
\* run and its result ignored, the list is empty
AnalyzeMotion ==
    /\ anPc = "motion"
    /\ \E o \in AnalysisOutcomes :
          /\ commands' = Ran(commands, "motion", o)
          /\ IF run_analysis_command(o) = "raise"
             THEN /\ anPc' = "raised"
                  /\ UNCHANGED <<all_segments, detected>>
             ELSE /\ all_segments' = Extend(all_segments, << >>)
                  /\ detected' = Returned("motion", << >>)
                  /\ anPc' = AfterMotion(analysis)
    /\ UNCHANGED <<analysis, timestamps, lines, audio_segments>>

\* face_segments = self.analyzer.detect_faces(video_path): no command, the
\* list is empty; then "return all_segments"
DetectFaces ==
    /\ anPc = "faces"
    /\ all_segments' = Extend(all_segments, << >>)
    /\ detected' = Returned("face_detection", << >>)
    /\ anPc' = "returned"
    /\ UNCHANGED <<analysis, timestamps, lines, audio_segments, commands>>

\* no call of _analyze_video_content: the defaults of ClippingConfig
AnalyzeIdle ==
    /\ anPc = "idle"
    /\ analysis = [audio_analysis_enabled |-> TRUE, detect_speech |-> TRUE,
                   detect_music |-> TRUE, motion_analysis_enabled |-> TRUE,
                   face_detection_enabled |-> TRUE, min_clip_duration |-> 1,
                   audio_silence_threshold |-> DefaultSilenceThreshold]
    /\ timestamps = << >>
    /\ lines = << >>
    /\ all_segments = << >>
    /\ audio_segments = << >>
    /\ detected = << >>
    /\ commands = << >>

\* the videos of a whole call: no scene change, one long scene, two scenes;
\* no audio line, a loud second followed by silence, an unreadable line
AnalyzeTimestamps == { << >>, <<0, MaxTime>>, <<0, 1, MaxTime>> }

AnalyzeLines == { << >>, <<"-30", "-50">>, <<"garbage">> }

\* a call of _analyze_video_content
AnalyzeInit ==
    /\ anPc = "video_info"
    /\ analysis \in { c \in AnalysisConfigs : c.min_clip_duration = 1 }
    /\ timestamps \in AnalyzeTimestamps
    /\ lines \in AnalyzeLines
    /\ all_segments = << >>
    /\ audio_segments = << >>
    /\ detected = << >>
    /\ commands = << >>

\* a call of detect_scenes alone
ScenesInit ==
    /\ anPc = "scenes"
    /\ analysis \in { c \in AnalysisConfigs :
                        /\ c.audio_analysis_enabled /\ c.detect_speech
                        /\ c.detect_music /\ c.motion_analysis_enabled
                        /\ c.face_detection_enabled }
    /\ timestamps \in SceneStreams
    /\ lines = << >>
    /\ all_segments = << >>
    /\ audio_segments = << >>
    /\ detected = << >>
    /\ commands = << >>

\* a call of _detect_speech_segments alone
SpeechInit ==
    /\ anPc = "speech"
    /\ analysis \in { c \in AnalysisConfigs :
                        /\ c.audio_analysis_enabled /\ c.detect_speech
                        /\ c.detect_music /\ c.motion_analysis_enabled
                        /\ c.face_detection_enabled }
    /\ timestamps = << >>
    /\ lines \in SpeechStreams
    /\ all_segments = << >>
    /\ audio_segments = << >>
    /\ detected = << >>
    /\ commands = << >>

(* ------------------------------------------------------------------ *)
(* Specifications                                                       *)
(* ------------------------------------------------------------------ *)

vars == <<selVars, runVars, procVars, histVars, anVars>>

SelectNext == ScoreAndRank /\ UNCHANGED <<runVars, procVars, histVars, anVars>>

InitSelect == SelectInit /\ RunIdle /\ ProcessIdle /\ AnalyzeIdle

SpecSelect == InitSelect /\ [][SelectNext]_vars

InitRescore == RescoreInit /\ RunIdle /\ ProcessIdle /\ AnalyzeIdle

SpecRescore == InitRescore /\ [][SelectNext]_vars

InitDisjoint == DisjointInit /\ RunIdle /\ ProcessIdle /\ AnalyzeIdle

SpecDisjoint == InitDisjoint /\ [][SelectNext]_vars

InitUntruncated == UntruncatedInit /\ RunIdle /\ ProcessIdle /\ AnalyzeIdle

SpecUntruncated == InitUntruncated /\ [][SelectNext]_vars

RunnerNext ==
    \/ RunAttempt /\ UNCHANGED <<selVars, procVars, histVars, anVars>>
    \/ RunBackoff /\ UNCHANGED <<selVars, procVars, histVars, anVars>>
    \/ RunExhausted /\ UNCHANGED <<selVars, procVars, histVars, anVars>>

InitRunner == SelectIdle /\ RunnerInit /\ ProcessIdle /\ AnalyzeIdle

SpecRunner == InitRunner /\ [][RunnerNext]_vars

InitRunnerAnyBudget == SelectIdle /\ RunnerInitAnyBudget /\ ProcessIdle /\ AnalyzeIdle

SpecRunnerAnyBudget == InitRunnerAnyBudget /\ [][RunnerNext]_vars

Init == SelectIdle /\ RunIdle /\ ProcessInit /\ AnalyzeIdle

Next ==
    \/ CheckDependencies /\ UNCHANGED <<selVars, anVars>>
    \/ SetupDirectories /\ UNCHANGED <<selVars, anVars>>
    \/ ManagedTempDirEnter /\ UNCHANGED <<selVars, anVars>>
    \/ DownloadStart /\ UNCHANGED <<selVars, anVars>>
    \/ StrategyCall /\ UNCHANGED <<selVars, anVars>>
    \/ RunnerStep /\ UNCHANGED <<selVars, anVars>>
    \/ StrategyReturn /\ UNCHANGED <<selVars, anVars>>
    \/ Cooldown /\ UNCHANGED <<selVars, anVars>>
    \/ DownloadFailed /\ UNCHANGED <<selVars, anVars>>
    \/ FallbackCall /\ UNCHANGED <<selVars, anVars>>
    \/ FallbackReturn /\ UNCHANGED <<selVars, anVars>>
    \/ ValidateVideo /\ UNCHANGED <<selVars, anVars>>
    \/ AnalyzeVideoContent /\ UNCHANGED <<selVars, anVars>>
    \/ ScoreSegments /\ UNCHANGED <<selVars, anVars>>
    \/ CreateClips /\ UNCHANGED <<selVars, anVars>>
    \/ FinishRun /\ UNCHANGED <<selVars, anVars>>
    \/ ManagedTempDirExit /\ UNCHANGED <<selVars, anVars>>
    \/ MainReturn /\ UNCHANGED <<selVars, anVars>>

Spec == Init /\ [][Next]_vars

otherVars == <<selVars, runVars, procVars, histVars>>

AnalyzeNext ==
    \/ GetVideoInfo /\ UNCHANGED otherVars
    \/ DetectScenes /\ UNCHANGED otherVars
    \/ DetectSpeech /\ UNCHANGED otherVars
    \/ DetectMusic /\ UNCHANGED otherVars
    \/ DetectAudioPeaks /\ UNCHANGED otherVars
    \/ AnalyzeMotion /\ UNCHANGED otherVars
    \/ DetectFaces /\ UNCHANGED otherVars

InitAnalyze == SelectIdle /\ RunIdle /\ ProcessIdle /\ AnalyzeInit

SpecAnalyze == InitAnalyze /\ [][AnalyzeNext]_vars

ScenesNext == DetectScenes /\ UNCHANGED otherVars

InitScenes == SelectIdle /\ RunIdle /\ ProcessIdle /\ ScenesInit

SpecScenes == InitScenes /\ [][ScenesNext]_vars

SpeechNext == DetectSpeech /\ UNCHANGED otherVars

InitSpeech == SelectIdle /\ RunIdle /\ ProcessIdle /\ SpeechInit

SpecSpeech == InitSpeech /\ [][SpeechNext]_vars

(* ------------------------------------------------------------------ *)
(* Properties of the selector (SpecSelect)                              *)
(* ------------------------------------------------------------------ *)

\* the list _remove_overlaps returned inside the call, before the slice
Survivors == remove_overlaps(SortByScoreDesc(ScoredSegments(segments, clipping)))

\* C1: any two distinct segments of the list _score_and_rank_segments
\* returns satisfy a.end_time <= b.start_time or b.end_time <= a.start_time
C1_NoTwoSelectedOverlap ==
    selPc = "returned" =>
        \A a, b \in 1..Len(ranked) :
            a # b => \/ ranked[a].end_time <= ranked[b].start_time
                     \/ ranked[b].end_time <= ranked[a].start_time

\* C1 witness: three candidates, one rejected for overlapping, two returned
C1_Witness ==
    /\ selPc = "returned"
    /\ Len(segments) = 3
    /\ clipping.max_clips >= 3
    /\ Len(ranked) = 2

\* C2 as stated: for every value of max_clips the returned list has length
\* <= max_clips
C2_LengthAtMostMaxClips ==
    selPc = "returned" => Len(ranked) <= clipping.max_clips

\* C2 amended: for every max_clips >= 0 the returned list has length
\* <= max_clips
C2_LengthAtMostMaxClipsNonNegative ==
    (selPc = "returned" /\ clipping.max_clips >= 0)
        => Len(ranked) <= clipping.max_clips

\* C2 witness: the slice cut a longer non-overlapping list down to max_clips
C2_Witness ==
    /\ selPc = "returned"
    /\ clipping.max_clips >= 1
    /\ Len(Survivors) > clipping.max_clips
    /\ Len(ranked) = clipping.max_clips

\* a negative max_clips drops segments from the end instead: two disjoint
\* segments and max_clips = -1 give one segment
C2_NegativeSliceSeen ==
    /\ selPc = "returned"
    /\ clipping.max_clips = 0 - 1
    /\ Len(Survivors) = 2
    /\ Len(ranked) = 1

(* ------------------------------------------------------------------ *)
(* Properties of the command runner (SpecRunner)                        *)
(* ------------------------------------------------------------------ *)

\* captured error text that holds one of the two fatal markers
HasFatalMarker(err) ==
    /\ ~ err.none
    /\ \E k \in 1..Len(err.text) :
           err.text[k] \in {"Video unavailable", "Private video"}

\* C5: an execution that fails with "Video unavailable" or "Private video"
\* in its error text makes the runner return failure at that attempt: no
\* sleep and no execution follows, whatever budget remains
C5_FatalMarkerStopsRetries ==
    (lastOutcome.kind = "error" /\ HasFatalMarker(lastOutcome.stderr)) =>
        /\ runPc = "returned"
        /\ runResult.success = FALSE
        /\ runResult.output = lastOutcome.stderr.text
        /\ execs = attempt + 1
        /\ Len(sleeps) = attempt

\* C5 witness: a fatal marker on the first attempt with max_retries = 5 is
\* one execution
C5_Witness ==
    /\ max_retries = 5
    /\ lastOutcome.kind = "error"
    /\ HasFatalMarker(lastOutcome.stderr)
    /\ runPc = "returned"
    /\ execs = 1
    /\ sleeps = << >>

\* C6: the sleep after the retryable failure of attempt k is 2^k seconds,
\* and there is exactly one sleep between two consecutive attempts
C6_BackoffIsPowerOfTwo ==
    /\ \A k \in 1..Len(sleeps) : sleeps[k] = Pow2(k - 1)
    /\ Len(sleeps) <= execs
    /\ execs <= Len(sleeps) + 1
    /\ (runPc = "loop" /\ attempt < max_retries) =>
           (execs = attempt /\ Len(sleeps) = attempt)
    /\ runPc = "sleep" => (execs = attempt + 1 /\ Len(sleeps) = attempt)

\* C6 witness: three retryable failures in a row slept 1, 2 and 4 seconds
C6_Witness ==
    /\ sleeps = <<1, 2, 4>>
    /\ runPc = "loop"
    /\ attempt = 3
    /\ execs = 3

\* C7: at most max_retries executions; the first success returns success
\* with no further execution; max_retries retryable failures return failure
C7_AtMostMaxRetriesExecutions ==
    /\ execs <= max_retries
    /\ lastOutcome.kind = "ok" =>
           /\ runPc = "returned"
           /\ runResult.success = TRUE
           /\ execs = attempt + 1
    /\ (runPc = "returned" /\ runResult.success) => lastOutcome.kind = "ok"
    /\ (runPc = "returned" /\ runResult.output = <<"Max retries exceeded">>) =>
           /\ runResult.success = FALSE
           /\ execs = max_retries
           /\ attempt = max_retries
    /\ (execs = max_retries /\ lastOutcome.kind = "timeout") =>
           \/ runPc = "loop" /\ attempt = max_retries
           \/ runPc = "returned" /\ runResult = [success |-> FALSE,
                                                 output |-> <<"Max retries exceeded">>]

\* C7 witness: a budget of three used up by three retryable failures
C7_Witness ==
    /\ max_retries = 3
    /\ execs = 3
    /\ lastOutcome.kind \in {"timeout", "error"}
    /\ runPc = "returned"
    /\ runResult = [success |-> FALSE, output |-> <<"Max retries exceeded">>]

\* C8: an execution that timed out is never treated as fatal, whatever its
\* captured text: backoff and another attempt follow while budget remains,
\* and only the exhausted budget ends the call
C8_TimeoutIsRetryable ==
    lastOutcome.kind = "timeout" =>
        \/ /\ runPc = "sleep"
           /\ attempt < max_retries - 1
           /\ execs = attempt + 1
        \/ /\ runPc = "loop"
           /\ execs = attempt
           /\ attempt < max_retries => Len(sleeps) = attempt
        \/ /\ runPc = "returned"
           /\ execs = max_retries
           /\ runResult = [success |-> FALSE, output |-> <<"Max retries exceeded">>]

\* C8 witness: a timeout whose captured text holds a fatal marker was slept
\* off and the next attempt is due
C8_Witness ==
    /\ lastOutcome.kind = "timeout"
    /\ HasFatalMarker(lastOutcome.stderr)
    /\ runPc = "loop"
    /\ attempt >= 1
    /\ attempt < max_retries
    /\ Len(sleeps) = attempt

(* ------------------------------------------------------------------ *)
(* Properties of the acquisition pipeline (Spec)                        *)
(* ------------------------------------------------------------------ *)

InDownload == pc \in {"download", "strategy", "in_strategy", "after_strategy"}

\* C3: the strategies are tried one at a time in the order of
\* download_strategies; the first success makes _download_video return
\* True at once: no later strategy, no cooldown, no fallback follows
C3_FirstSuccessWins ==
    /\ invoked = SubSeq(download_strategies, 1, Len(invoked))
    /\ pc = "in_strategy" => (Len(invoked) = i /\ caller = "strategy")
    /\ succeeded_with # "none" =>
           /\ download_result = "true"
           /\ ~ InDownload
           /\ runPc = "idle"
           /\ invoked[Len(invoked)] = succeeded_with
           /\ Len(cooldowns) = Len(invoked) - 1
           /\ fallback_calls = 0
    /\ download_result = "true" => succeeded_with # "none"

\* C3 witness: the fourth strategy succeeded after three failures and the
\* run went on to its end
C3_Witness ==
    /\ succeeded_with = "_strategy_web_client"
    /\ Len(invoked) = 4
    /\ Len(cooldowns) = 3
    /\ pc = "exited"

\* C4: when every strategy failed the fallback generator is invoked exactly
\* once, and never after a success; when it fails, process returns False,
\* the exit status is 1, and no validation, analysis, selection or clip
\* creation happens
C4_FallbackOnceAndFatal ==
    /\ fallback_calls <= 1
    /\ succeeded_with # "none" => fallback_calls = 0
    /\ fallback_calls = 1 =>
           /\ download_result = "false"
           /\ Len(invoked) = Len(download_strategies)
    /\ (download_result = "false" /\ pc # "fallback") => fallback_calls = 1
    /\ fallback_result \in {"false", "raised"} =>
           /\ stages = {}
           /\ pc \in {"cleanup", "return", "exited"}
           /\ pending = "false"
           /\ pc \in {"return", "exited"} => process_result = "false"
           /\ pc = "exited" => exit_status = <<1>>

\* C4 witness: the enabled fallback generator failed and main returned 1
C4_Witness ==
    /\ config.fallback_enabled
    /\ fallback_result = "false"
    /\ fallback_calls = 1
    /\ pc = "exited"
    /\ exit_status = <<1>>

\* the strategies that need the AuthContext
AuthStrategies == {"_strategy_tv_embedded", "_strategy_android_client"}

\* C9: without cookies the strategies that need them are skipped: no
\* command is executed for them, and the chain goes on to the next one
C9_AbsentAuthSkips ==
    cookies_file = "None" =>
        /\ executed \cap AuthStrategies = {}
        /\ succeeded_with \notin AuthStrategies
        /\ pc = "in_strategy" => download_strategies[i] \notin AuthStrategies
        /\ (pc = "after_strategy" /\ download_strategies[i] \in AuthStrategies) =>
               (runPc = "idle" /\ i < Len(download_strategies))
        /\ download_result = "false" => Len(invoked) = Len(download_strategies)

\* C9 witness: without cookies the first two strategies were called and
\* skipped, and the third one's command was executed
C9_Witness ==
    /\ cookies_file = "None"
    /\ invoked = SubSeq(download_strategies, 1, 3)
    /\ executed = {"_strategy_browser_cookies"}

\* C10: after the failed strategy at position k (from 1), another one
\* remaining, the pipeline waits min(3 + k, 10) seconds; nothing is waited
\* after the last strategy
C10_CooldownByPosition ==
    /\ \A k \in 1..Len(cooldowns) : cooldowns[k] = Min(BaseDelay + k, CapDelay)
    /\ Len(cooldowns) <= Len(download_strategies) - 1
    /\ pc = "strategy" => (Len(cooldowns) = i - 1 /\ Len(invoked) = i - 1)
    /\ pc \in {"in_strategy", "after_strategy"} =>
           (Len(cooldowns) = i - 1 /\ Len(invoked) = i)
    /\ download_result = "false" => cooldowns = <<4, 5, 6, 7, 8, 9>>

\* C10 witness: all seven strategies failed, with six cooldowns between them
C10_Witness ==
    /\ download_result = "false"
    /\ Len(invoked) = 7
    /\ cooldowns = <<4, 5, 6, 7, 8, 9>>

\* C11: _analyze_video_content is entered only after a strategy returned
\* True or, all strategies having failed, _create_fallback_video returned
\* True; validation, the first step on the video, is under the same rule
C11_AnalysisOnlyAfterAcquisition ==
    (pc \in {"validate", "analyze"} \/ stages # {}) =>
        \/ succeeded_with # "none" /\ download_result = "true"
        \/ /\ download_result = "false"
           /\ Len(invoked) = Len(download_strategies)
           /\ fallback_result = "true"

\* C11 witness: every strategy failed, the fallback generator succeeded and
\* the content analysis ran on its video
C11_Witness ==
    /\ "analyze" \in stages
    /\ succeeded_with = "none"
    /\ fallback_calls = 1
    /\ fallback_result = "true"

(* ------------------------------------------------------------------ *)
(* Order and content of the selection (SpecSelect)                      *)
(* ------------------------------------------------------------------ *)

\* the rescored input of the call, in input order
Scored == ScoredSegments(segments, clipping)

\* the first position of the list sc that holds v
FirstIndex(sc, v) ==
    CHOOSE p \in 1..Len(sc) :
        /\ sc[p] = v
        /\ \A q \in 1..(p - 1) : sc[q] # v

\* C12: the returned list is in non-increasing order of rescored score,
\* and returned segments of equal score stand in the order in which they
\* stood in the input
C12_DescendingAndStable ==
    selPc = "returned" =>
        LET sc == Scored
        IN  \A k, l \in 1..Len(ranked) :
                k < l =>
                    /\ RatLeq(ranked[l].score, ranked[k].score)
                    /\ \E p \in 1..Len(sc) : sc[p] = ranked[k]
                    /\ \E p \in 1..Len(sc) : sc[p] = ranked[l]
                    /\ RatLeq(ranked[k].score, ranked[l].score) =>
                           FirstIndex(sc, ranked[k]) < FirstIndex(sc, ranked[l])

\* C12 witness: the lowest-scored candidate came first in the input and was
\* rejected; the two others tie and are returned in their input order
C12_Witness ==
    /\ selPc = "returned"
    /\ Len(segments) = 3
    /\ ranked = <<Scored[2], Scored[3]>>
    /\ Scored[2] # Scored[3]
    /\ Scored[2].score = Scored[3].score
    /\ RatLess(Scored[1].score, Scored[2].score)

\* the overlap test as specified: a candidate is rejected when it starts
\* before an accepted segment ends and ends after that segment starts
SpecRejects(candidate, accepted) ==
    \E j \in 1..Len(accepted) :
        /\ candidate.start_time < accepted[j].end_time
        /\ candidate.end_time > accepted[j].start_time

\* the specified greedy walk over the sorted list from position k: it stops
\* as soon as limit segments are accepted
RECURSIVE GreedyWalk(_, _, _, _)
GreedyWalk(sorted, k, accepted, limit) ==
    IF Len(accepted) >= limit \/ k > Len(sorted) THEN accepted
    ELSE IF SpecRejects(sorted[k], accepted)
         THEN GreedyWalk(sorted, k + 1, accepted, limit)
         ELSE GreedyWalk(sorted, k + 1, Append(accepted, sorted[k]), limit)

\* C13: for every input and every max_clips >= 0 the list returned (overlaps
\* removed over the whole sorted list, then the first max_clips kept) is the
\* list accepted by the greedy walk that stops at max_clips accepted
C13_SameAsEarlyStoppingWalk ==
    (selPc = "returned" /\ clipping.max_clips >= 0) =>
        ranked = GreedyWalk(SortByScoreDesc(Scored), 1, << >>, clipping.max_clips)

\* C13 witness: the walk stopped early, at one accepted segment, although a
\* later candidate of the sorted list overlaps nothing accepted
C13_Witness ==
    /\ selPc = "returned"
    /\ clipping.max_clips = 1
    /\ Len(segments) = 3
    /\ Len(Survivors) = 2
    /\ ranked = <<Survivors[1]>>

(* ------------------------------------------------------------------ *)
(* Properties of the rescoring (SpecRescore)                            *)
(* ------------------------------------------------------------------ *)

\* the multiplier table of the rescoring rule, in tenths
BonusTenths(kind, c) ==
    CASE kind = "speech" -> IF c.prefer_speech THEN 15 ELSE 10
      [] kind = "face_detection" -> IF c.prefer_faces THEN 13 ELSE 10
      [] kind = "motion" -> IF c.prefer_motion THEN 12 ELSE 10
      [] OTHER -> 10

\* one segment went in and came back
OneRescored ==
    /\ selPc = "returned"
    /\ Len(segments) = 1
    /\ Len(ranked) = 1

\* C14: the rescored score is raw score x kind multiplier x duration factor,
\* the multiplier being 1.5 for speech iff prefer_speech, 1.3 for
\* face_detection iff prefer_faces, 1.2 for motion iff prefer_motion, else 1,
\* and the factor max(0.5, 1 - |duration - target| / target); the other
\* fields are copied
C14_ScoreIsRawTimesBonusTimesFactor ==
    (selPc = "returned" /\ Len(segments) = 1 /\ clipping.max_clips >= 1) =>
        LET seg == segments[1]
            T   == clipping.target_clip_duration
            dev == Abs(seg.duration - T)
            fn  == IF 2 * dev >= T THEN 1 ELSE T - dev
            fd  == IF 2 * dev >= T THEN 2 ELSE T
            m   == BonusTenths(seg.clip_type, clipping)
        IN  /\ Len(ranked) = 1
            /\ ranked[1].score.n * (seg.score.d * 10 * fd)
                   = ranked[1].score.d * (seg.score.n * m * fn)
            /\ ranked[1] = [seg EXCEPT !.score = ranked[1].score]

\* C14 witness: a face segment at the target duration, faces preferred, got
\* 1.3 times its raw score
C14_Witness ==
    /\ OneRescored
    /\ segments[1].clip_type = "face_detection"
    /\ clipping.prefer_faces
    /\ segments[1].duration = clipping.target_clip_duration
    /\ segments[1].score = Rat(10, 10)
    /\ ranked[1].score = Rat(13, 10)

\* C15: for every duration and every target_clip_duration > 0 the duration
\* factor is at least 0.5 and at most 1: the rescored score lies between
\* half of and the whole of raw score x kind multiplier
C15_DurationFactorBetweenHalfAndOne ==
    /\ (clipping.target_clip_duration > 0 /\ Len(segments) = 1) =>
           /\ RatLeq(Rat(1, 2), DurationFactor(segments[1], clipping))
           /\ RatLeq(DurationFactor(segments[1], clipping), Rat(1, 1))
    /\ OneRescored =>
           LET bonused == RatMul(segments[1].score,
                                 Rat(BonusTenths(segments[1].clip_type, clipping), 10))
           IN  /\ RatLeq(RatMul(bonused, Rat(1, 2)), ranked[1].score)
               /\ RatLeq(ranked[1].score, bonused)

\* C15 witness: a duration more than twice the target, where
\* 1 - |duration - target| / target is negative, was rescored with 0.5
C15_Witness ==
    /\ OneRescored
    /\ clipping.target_clip_duration > 0
    /\ segments[1].duration > 2 * clipping.target_clip_duration
    /\ segments[1].score.n > 0
    /\ ranked[1].score =
           RatMul(RatMul(segments[1].score,
                         Rat(BonusTenths(segments[1].clip_type, clipping), 10)),
                  Rat(1, 2))

\* the flag that governs each kind with a bonus
FlagOfKind ==
    [speech |-> "prefer_speech", face_detection |-> "prefer_faces",
     motion |-> "prefer_motion"]

\* the score the segment of the call gets with flag f switched over
ScoreWithToggled(f) ==
    Rescore(segments[1], [clipping EXCEPT ![f] = ~ clipping[f]]).score

\* C16: switching a kind's flag on strictly raises the rescored score of a
\* segment of that kind with positive raw score, and leaves the rescored
\* score of a segment of any other kind as it was
C16_FlagRaisesOwnKindOnly ==
    OneRescored =>
        \A kind \in DOMAIN FlagOfKind :
            LET f     == FlagOfKind[kind]
                now   == ranked[1].score
                other == ScoreWithToggled(f)
            IN  /\ (segments[1].clip_type = kind /\ segments[1].score.n > 0) =>
                       IF clipping[f] THEN RatLess(other, now)
                                      ELSE RatLess(now, other)
                /\ segments[1].clip_type # kind => other = now

\* C16 witness: a motion segment with positive raw score, motion preferred,
\* scored above what it gets with the flag off; the other flags change nothing
C16_Witness ==
    /\ OneRescored
    /\ segments[1].clip_type = "motion"
    /\ segments[1].score.n > 0
    /\ clipping.prefer_motion
    /\ RatLess(ScoreWithToggled("prefer_motion"), ranked[1].score)
    /\ ScoreWithToggled("prefer_speech") = ranked[1].score

(* ------------------------------------------------------------------ *)
(* Selection applied again (SpecSelect)                                 *)
(* ------------------------------------------------------------------ *)

Range(list) == { list[k] : k \in 1..Len(list) }

\* no two positions of the list hold segments that share time
PairwiseDisjoint(list) ==
    \A a, b \in 1..Len(list) :
        a # b => \/ list[a].end_time <= list[b].start_time
                 \/ list[b].end_time <= list[a].start_time

\* a segment without its score
Unscored(seg) == <<seg.start_time, seg.end_time, seg.duration, seg.clip_type>>

\* C17: sorting, removing overlaps and truncating an already rescored,
\* pairwise non-overlapping list of at most max_clips segments returns the
\* same set of segments: so for the list a call returned, and so for a
\* rescored input that was non-overlapping to begin with; a whole new call
\* on the returned list (which rescores again) still returns the same
\* intervals and kinds
C17_SelectionIsIdempotent ==
    /\ (selPc = "returned" /\ Len(ranked) <= clipping.max_clips) =>
           /\ select_ranked(ranked, clipping) = ranked
           /\ { Unscored(x) : x \in Range(score_and_rank_segments(ranked, clipping)) }
                  = { Unscored(x) : x \in Range(ranked) }
    /\ (selPc = "returned" /\ Len(segments) <= clipping.max_clips) =>
           LET sc == Scored
           IN  PairwiseDisjoint(sc) => Range(ranked) = Range(sc)

\* C17 witness: two non-overlapping candidates, returned in another order
\* than they came in; selecting from the returned list gives it back
C17_Witness ==
    /\ selPc = "returned"
    /\ clipping.max_clips >= 2
    /\ Len(segments) = 2
    /\ PairwiseDisjoint(Scored)
    /\ ranked = <<Scored[2], Scored[1]>>
    /\ select_ranked(ranked, clipping) = ranked

(* ------------------------------------------------------------------ *)
(* Non-overlapping candidates (SpecDisjoint)                            *)
(* ------------------------------------------------------------------ *)

DistinctScores(list) ==
    \A a, b \in 1..Len(list) : a # b => list[a].score # list[b].score

\* the list holds, in descending order, the highest-scored segments of Scored
TopOfScored(list) ==
    \A k \in 1..Len(list) :
        /\ list[k] \in Range(Scored)
        /\ Cardinality({ p \in 1..Len(Scored) :
                            RatLess(list[k].score, Scored[p].score) }) = k - 1

\* C18 as stated: n pairwise non-overlapping candidates with distinct
\* rescored scores give exactly the min(max_clips, n) highest-scored ones,
\* in descending order of score
C18_TopMinOfMaxClipsAndN ==
    (selPc = "returned" /\ PairwiseDisjoint(Scored) /\ DistinctScores(Scored)) =>
        /\ Len(ranked) = Min(clipping.max_clips, Len(segments))
        /\ TopOfScored(ranked)

\* C18 amended: the same for max_clips >= 0
C18_TopMinOfMaxClipsAndNNonNegative ==
    (/\ selPc = "returned"
     /\ clipping.max_clips >= 0
     /\ PairwiseDisjoint(Scored)
     /\ DistinctScores(Scored)) =>
        /\ Len(ranked) = Min(clipping.max_clips, Len(segments))
        /\ TopOfScored(ranked)

\* C18 witness: three non-overlapping candidates of distinct scores, the
\* best one last in the input, max_clips = 2: the two best are returned
C18_Witness ==
    /\ selPc = "returned"
    /\ clipping.max_clips = 2
    /\ Len(segments) = 3
    /\ PairwiseDisjoint(Scored)
    /\ DistinctScores(Scored)
    /\ ranked = <<Scored[3], Scored[1]>>

\* max_clips = -1 with three such candidates returns two of them, not
\* min(-1, 3)
C18_NegativeSliceSeen ==
    /\ selPc = "returned"
    /\ clipping.max_clips = 0 - 1
    /\ Len(segments) = 3
    /\ DistinctScores(Scored)
    /\ Len(ranked) = 2

(* ------------------------------------------------------------------ *)
(* The best candidate (SpecSelect)                                      *)
(* ------------------------------------------------------------------ *)

\* v is the rescored candidate of the first input position holding a
\* highest rescored score
IsBestCandidate(v) ==
    \E p \in 1..Len(segments) :
        /\ v = Rescore(segments[p], clipping)
        /\ \A q \in 1..Len(segments) :
               RatLeq(Rescore(segments[q], clipping).score, v.score)
        /\ \A q \in 1..(p - 1) :
               RatLess(Rescore(segments[q], clipping).score, v.score)

\* C19: of two candidates that overlap each other, max_clips >= 1, exactly
\* one is returned: the one of higher rescored score, the earlier one of the
\* input when the scores are equal; and whenever the returned list is not
\* empty it holds, in front, the highest-rescored candidate
C19_BestCandidateIsSelected ==
    /\ (/\ selPc = "returned"
        /\ Len(segments) = 2
        /\ clipping.max_clips >= 1
        /\ segments[1].start_time < segments[2].end_time
        /\ segments[2].start_time < segments[1].end_time) =>
           ranked = IF RatLess(Scored[1].score, Scored[2].score)
                    THEN <<Scored[2]>> ELSE <<Scored[1]>>
    /\ (selPc = "returned" /\ ranked # << >>) => IsBestCandidate(ranked[1])

\* C19 witness: the second of two overlapping candidates scores higher and
\* is the one returned
C19_Witness ==
    /\ selPc = "returned"
    /\ Len(segments) = 2
    /\ clipping.max_clips >= 1
    /\ segments[1].start_time < segments[2].end_time
    /\ segments[2].start_time < segments[1].end_time
    /\ RatLess(Scored[1].score, Scored[2].score)
    /\ ranked = <<Scored[2]>>

(* ------------------------------------------------------------------ *)
(* No candidates (SpecSelect)                                           *)
(* ------------------------------------------------------------------ *)

\* C20: with an empty segment list _score_and_rank_segments returns the
\* empty list and raises nothing, whatever the config (target 0 and a
\* negative max_clips included), and so does _remove_overlaps inside it
C20_EmptyInEmptyOut ==
    segments = << >> =>
        /\ selPc # "raised"
        /\ selPc = "returned" => ranked = << >>
        /\ remove_overlaps(SortByScoreDesc(Scored)) = << >>

\* C20 witness: the call with no segments returned the empty list although
\* target_clip_duration is 0, which raises as soon as there is one segment
C20_Witness ==
    /\ segments = << >>
    /\ clipping.target_clip_duration = 0
    /\ clipping.max_clips < 0
    /\ selPc = "returned"
    /\ ranked = << >>

(* ------------------------------------------------------------------ *)
(* Configuration and outcome of a run (Spec)                            *)
(* ------------------------------------------------------------------ *)

\* C21: a config with target_clip_duration = 0 is rejected before the
\* selector: rescoring is never entered with a zero target duration
C21_ZeroTargetNeverRescored ==
    "select" \in stages => config.target_clip_duration # 0

\* the run in which it is entered: segments were found, the target is 0,
\* the division raised and process returned False
C21_ZeroTargetRescored ==
    /\ config.target_clip_duration = 0
    /\ found > 0
    /\ "select" \in stages
    /\ "clips" \notin stages
    /\ process_result = "false"

(* ------------------------------------------------------------------ *)
(* Properties of the content analyzer (SpecAnalyze)                     *)
(* ------------------------------------------------------------------ *)

\* a command of the detector exited with an error or timed out
CommandFailed(name) ==
    \E k \in 1..Len(commands) :
        /\ commands[k].detector = name
        /\ commands[k].outcome \in {"error", "timeout"}

\* the detectors the config enables, in the order of the analysis; scene
\* detection and, within the audio analysis, the peak detector have no
\* switch of their own
EnabledDetectors(c) ==
    <<"scene_change">>
    \o (IF c.audio_analysis_enabled
        THEN (IF c.detect_speech THEN <<"speech">> ELSE << >>)
             \o (IF c.detect_music THEN <<"music">> ELSE << >>)
             \o <<"audio_peak">>
        ELSE << >>)
    \o (IF c.motion_analysis_enabled THEN <<"motion">> ELSE << >>)
    \o (IF c.face_detection_enabled THEN <<"face_detection">> ELSE << >>)

\* the detectors that have returned, in order
DetectorsRun == [k \in 1..Len(detected) |-> detected[k].detector]

\* C22: a detector whose command exits with an error or times out, or whose
\* output cannot be parsed, returns the empty list and nothing more happens:
\* the call raises only for an exception the analyzer does not catch, and
\* when it returns every enabled detector has run
C22_DetectorFailureIsIsolated ==
    /\ \A k \in 1..Len(detected) :
           CommandFailed(detected[k].detector) => detected[k].segments = << >>
    /\ \A k \in 1..Len(detected) :
           (detected[k].detector = "speech" /\ \A j \in 1..Len(lines) : lines[j] = "garbage")
               => detected[k].segments = << >>
    /\ anPc = "raised" =>
           LET last == commands[Len(commands)]
           IN  \/ last.outcome = "oserror"
               \/ last.detector = "video_info" /\ last.outcome = "ok"
    /\ anPc = "returned" => DetectorsRun = EnabledDetectors(analysis)

\* C22 witness: the scene command timed out on a video with two scenes, all
\* six detectors ran, and the call returned the speech segment alone
C22_Witness ==
    /\ anPc = "returned"
    /\ timestamps = <<0, 1, MaxTime>>
    /\ \E k \in 1..Len(commands) :
           commands[k] = [detector |-> "scene_change", outcome |-> "timeout"]
    /\ Len(detected) = 6
    /\ all_segments = <<SpeechSegment(0, 1)>>

(* ------------------------------------------------------------------ *)
(* Properties of the scene detector (SpecScenes)                        *)
(* ------------------------------------------------------------------ *)

\* the positions i of the stream whose gap to position i + 1 is at least
\* min_clip_duration
LongGaps ==
    { g \in 1..(Len(timestamps) - 1) :
        timestamps[g + 1] - timestamps[g] >= analysis.min_clip_duration }

\* C23: after a successful scene command the detector has returned, for the
\* consecutive pairs (t_g, t_g+1) with gap >= min_clip_duration and in their
\* order, one scene_change segment each, from t_g to t_g+1, of duration
\* t_g+1 - t_g and score 1.0, and nothing else
C23_OneSceneSegmentPerLongGap ==
    (/\ Len(detected) >= 1
     /\ detected[1].detector = "scene_change"
     /\ ~ CommandFailed("scene_change")) =>
        LET scenes == detected[1].segments
        IN  /\ Len(scenes) = Cardinality(LongGaps)
            /\ \A g \in LongGaps :
                   LET seg == scenes[Cardinality({ h \in LongGaps : h <= g })]
                   IN  /\ seg.start_time = timestamps[g]
                       /\ seg.end_time = timestamps[g + 1]
                       /\ seg.duration = timestamps[g + 1] - timestamps[g]
                       /\ seg.score = [n |-> 1, d |-> 1]
                       /\ seg.clip_type = "scene_change"

\* C23 witness: of three gaps the first is too short and the two others are
\* exactly min_clip_duration long: two segments, in stream order
C23_Witness ==
    /\ analysis.min_clip_duration = 1
    /\ timestamps = <<0, 0, 1, 2>>
    /\ Len(detected) = 1
    /\ detected[1].segments = <<SceneSegment(0, 1), SceneSegment(1, 2)>>

(* ------------------------------------------------------------------ *)
(* Properties of the speech detector (SpecSpeech)                       *)
(* ------------------------------------------------------------------ *)

\* the lines of the ffprobe output that parse to a (timestamp, level) sample
Samples == { k \in 1..Len(lines) : lines[k] # "garbage" }

\* the sample of line k exceeds audio_silence_threshold
Loud(k) == ParseRms(lines[k]) > analysis.audio_silence_threshold

\* the samples after line k, and the samples before it
SamplesAfter(k) == { h \in Samples : h > k }
SamplesBefore(k) == { h \in Samples : h < k }

\* the sample that follows line k
NextSample(k) == CHOOSE h \in SamplesAfter(k) : \A g \in SamplesAfter(k) : h <= g

\* the sample that precedes line k
PrevSample(k) == CHOOSE h \in SamplesBefore(k) : \A g \in SamplesBefore(k) : g <= h

\* the samples from line a to line b are a maximal run above the threshold
IsMaximalRun(a, b) ==
    /\ a \in Samples /\ b \in Samples /\ a <= b
    /\ \A k \in Samples : (a <= k /\ k <= b) => Loud(k)
    /\ SamplesBefore(a) # {} => ~ Loud(PrevSample(a))
    /\ SamplesAfter(b) # {} => ~ Loud(NextSample(b))

\* the run that ends with line b is still above the threshold when the
\* stream ends
IsTrailing(b) == SamplesAfter(b) = {}

\* where the run from line a to line b ends: at the sample that closes it,
\* or, for a trailing run, at its last sample
RunEnd(b) == IF IsTrailing(b) THEN LineTime(b) ELSE LineTime(NextSample(b))

\* the speech detector ran both of its commands and parsed the output
SpeechAnalysed ==
    /\ \E k \in 1..Len(detected) : detected[k].detector = "speech"
    /\ \E k \in 1..Len(commands) :
          commands[k].detector = "speech" /\ commands[k].outcome = "ok"
    /\ ~ CommandFailed("speech")

\* what the speech detector returned
SpeechReturned ==
    LET k == CHOOSE h \in 1..Len(detected) : detected[h].detector = "speech"
    IN  detected[k].segments

\* every maximal run of at least min_clip_duration, the trailing run
\* included or not, is among the segments returned
LoudRunsEmitted(with_trailing) ==
    SpeechAnalysed =>
        \A a, b \in Samples :
            (/\ IsMaximalRun(a, b)
             /\ with_trailing \/ ~ IsTrailing(b)
             /\ RunEnd(b) - LineTime(a) >= analysis.min_clip_duration) =>
                \E k \in 1..Len(SpeechReturned) :
                    SpeechReturned[k] = SpeechSegment(LineTime(a), RunEnd(b))

\* C24: every maximal run of samples above audio_silence_threshold that is
\* at least min_clip_duration long is returned as a speech segment of score
\* 0.8, a run still above the threshold at the end of the stream included
C24_EveryLoudRunBecomesSpeech == LoudRunsEmitted(TRUE)

\* C24, the part the loop implements: the same for the runs that a sample at
\* or below the threshold closes
C24_ClosedRunsBecomeSpeech == LoudRunsEmitted(FALSE)

\* C24 witness: every sample is above the threshold, the run is longer than
\* min_clip_duration, and the detector returned no segment
C24_TrailingRunDropped ==
    /\ SpeechAnalysed
    /\ lines = <<"-30", "-30", "-30">>
    /\ analysis.min_clip_duration = 1
    /\ SpeechReturned = << >>

(* ------------------------------------------------------------------ *)
(* Properties of the analysis as a whole (SpecAnalyze)                  *)
(* ------------------------------------------------------------------ *)

\* the lists the detectors returned, from the k-th detector run on, one
\* after the other
RECURSIVE Concatenated(_, _)
Concatenated(runs, k) ==
    IF k > Len(runs) THEN << >>
    ELSE runs[k].segments \o Concatenated(runs, k + 1)

\* the sum of the lengths of those lists
RECURSIVE TotalLength(_, _)
TotalLength(runs, k) ==
    IF k > Len(runs) THEN 0
    ELSE Len(runs[k].segments) + TotalLength(runs, k + 1)

\* C25: the list _analyze_video_content returns is the lists of the enabled
\* detectors one after the other, in the order scene-change, speech, music,
\* audio-peak, motion, face; its length is the sum of their lengths and a
\* disabled detector is not run
C25_ResultIsConcatenationInOrder ==
    anPc = "returned" =>
        /\ DetectorsRun = EnabledDetectors(analysis)
        /\ all_segments = Concatenated(detected, 1)
        /\ Len(all_segments) = TotalLength(detected, 1)

\* C25 witness: two scene segments and one speech segment are returned in
\* that order, with motion analysis disabled
C25_Witness ==
    /\ anPc = "returned"
    /\ ~ analysis.motion_analysis_enabled
    /\ analysis.face_detection_enabled
    /\ all_segments = <<SceneSegment(0, 1), SceneSegment(1, MaxTime),
                        SpeechSegment(0, 1)>>

(* ------------------------------------------------------------------ *)
(* Properties of the outcome of a run (Spec)                            *)
(* ------------------------------------------------------------------ *)

\* every download strategy failed and the fallback video was not made
Exhausted ==
    /\ download_result = "false"
    /\ fallback_result \in {"false", "raised"}

\* C26: a run ends unsuccessfully (process returns False, exit status 1)
\* only when every download strategy failed and the fallback failed too
C26_OnlyExhaustionFailsTheRun ==
    (process_result = "false" \/ exit_status = <<1>>) => Exhausted

\* C26 witness: the download succeeded, the clips were not created, and the
\* run ended with exit status 1
C26_FailedClipsFailTheRun ==
    /\ download_result = "true"
    /\ fallback_calls = 0
    /\ "clips" \in stages
    /\ "report" \notin stages
    /\ process_result = "false"
    /\ exit_status = <<1>>

(* ------------------------------------------------------------------ *)
(* The selector and its argument (SpecSelect)                           *)
(* ------------------------------------------------------------------ *)

\* seg is the input segment old with, at most, another score
SameButScore(seg, old) == seg = [old EXCEPT !.score = seg.score]

\* C27: _score_and_rank_segments leaves its argument as it was, the same
\* segments in the same order with the same scores, and every segment it
\* returns is an input segment in all fields but the score
C27_InputKeptAndOnlyScoreChanged ==
    /\ [][segments' = segments]_vars
    /\ [](selPc = "returned" =>
             \A k \in 1..Len(ranked) :
                 \E h \in 1..Len(segments) : SameButScore(ranked[k], segments[h]))

\* C27 witness: two segments are returned, the second of the input first and
\* with a new score
C27_Witness ==
    /\ selPc = "returned"
    /\ Len(segments) = 2
    /\ Len(ranked) = 2
    /\ segments[1] # segments[2]
    /\ SameButScore(ranked[1], segments[2])
    /\ ranked[1].score # segments[2].score
    /\ SameButScore(ranked[2], segments[1])

(* ------------------------------------------------------------------ *)
(* Properties of the cookie lookup and the strategy chain (Spec)        *)
(* ------------------------------------------------------------------ *)

\* the first of the three locations that holds a cookie file, or None
FirstCookieFile(e) ==
    IF e.home_cookies THEN "~/.config/yt-dlp/cookies.txt"
    ELSE IF e.cwd_cookies THEN "./cookies.txt"
    ELSE IF e.YOUTUBE_COOKIES = "file" THEN "$YOUTUBE_COOKIES"
    ELSE "None"

\* C28: _find_cookies returns the first of the user config cookie file, the
\* cookie file of the working directory and the file YOUTUBE_COOKIES names
\* that holds cookies, and None when none does, YOUTUBE_COOKIES unset
\* included
C28_FirstCookieFileOrNone ==
    cookies_file # "unset" => cookies_file = FirstCookieFile(environ)

\* C28 witness: no cookie file anywhere and YOUTUBE_COOKIES unset, and
\* _find_cookies returned the working directory
C28_UnsetVariableYieldsDirectory ==
    /\ ~ environ.home_cookies
    /\ ~ environ.cwd_cookies
    /\ environ.YOUTUBE_COOKIES = "unset"
    /\ cookies_file = "."

\* C29: the cooldown after the k-th strategy is waited only when that
\* strategy ran its command and failed; a strategy that returned at once for
\* want of a cookie file is followed by no wait
C29_CooldownOnlyAfterAttempt ==
    \A k \in 1..Len(cooldowns) : download_strategies[k] \in executed

\* C29 witness: without a cookie file the first strategy returned at once,
\* no command was executed, and the cooldown of 4 seconds was waited
C29_CooldownAfterSkippedStrategy ==
    /\ cookies_file = "None"
    /\ invoked = <<"_strategy_tv_embedded">>
    /\ executed = {}
    /\ cooldowns = <<CooldownWait(1)>>
    /\ pc = "strategy"

\* the strategy being called has just failed: its runner gave up, after the
\* last retry or at a fatal marker, or raised
StrategyFailedNow ==
    /\ pc = "in_strategy"
    /\ \/ runPc = "raised"
       \/ runPc = "returned" /\ ~ runResult.success

\* C30: a strategy that fails, by exhausted retries, by a fatal marker or
\* by an exception, does not end _download_video: the next strategy follows,
\* and False is returned only after all the strategies have been called
C30_FailureNeverEndsTheChain ==
    /\ [][StrategyFailedNow =>
             /\ pc' = "after_strategy"
             /\ download_result' = "pending"
             /\ process_result' = process_result]_vars
    /\ [][(pc = "after_strategy" /\ i < Len(download_strategies)) =>
             /\ pc' = "strategy"
             /\ i' = i + 1
             /\ download_result' = "pending"]_vars
    /\ [](download_result = "false" => invoked = download_strategies)

\* C30 witness: the commands of all seven strategies were executed, each
\* strategy failed, and only then _download_video returned False
C30_Witness ==
    /\ download_result = "false"
    /\ executed = { download_strategies[k] : k \in 1..Len(download_strategies) }
    /\ invoked = download_strategies
    /\ pc = "fallback"

\* a strategy other than the first fails with a fatal marker in its error
\* text, and one other than the first raises
C30_LaterStrategyHitsFatalMarker ==
    /\ StrategyFailedNow
    /\ i > 1
    /\ lastOutcome.kind = "error"
    /\ HasFatalMarker(lastOutcome.stderr)

C30_LaterStrategyRaises ==
    /\ StrategyFailedNow
    /\ i > 1
    /\ runPc = "raised"

(* ------------------------------------------------------------------ *)
(* Properties of the temporary directory (Spec)                         *)
(* ------------------------------------------------------------------ *)

\* process is over after the temporary directory had been created, with
\* cleanup_temp_files set
ExitedWithCleanupDue ==
    /\ pc \in {"return", "exited"}
    /\ temp_dir # "none"
    /\ config.cleanup_temp_files

C31_RmtreeRaisedAfterSuccess ==
    /\ ExitedWithCleanupDue
    /\ pending = "true"
    /\ temp_dir = "left"
    /\ process_result = "false"

(* ------------------------------------------------------------------ *)
(* Properties of _remove_overlaps by itself (SpecUntruncated)           *)
(* ------------------------------------------------------------------ *)

\* the two segments share time
ShareTime(a, b) == a.start_time < b.end_time /\ b.start_time < a.end_time

\* C32: of the rescored candidates in sorted order, every one that
\* _remove_overlaps did not accept shares time with an accepted one that
\* stands before it in that order, with a score at least as high
C32_RejectedOverlapsEarlierAccepted ==
    selPc = "returned" =>
        LET sorted == SortByScoreDesc(ScoredSegments(segments, clipping))
            accepted == Range(ranked)
        IN  \A k \in 1..Len(sorted) :
                sorted[k] \notin accepted =>
                    \E h \in 1..(k - 1) :
                        /\ sorted[h] \in accepted
                        /\ ShareTime(sorted[k], sorted[h])
                        /\ RatLeq(sorted[k].score, sorted[h].score)

\* C32 witness: of three candidates the second in sorted order is rejected
\* for overlapping the first, and the third, which overlaps only the
\* rejected one, is accepted
C32_Witness ==
    /\ selPc = "returned"
    /\ Len(segments) = 3
    /\ Len(ranked) = 2
    /\ LET sorted == SortByScoreDesc(ScoredSegments(segments, clipping))
       IN  /\ ranked = <<sorted[1], sorted[3]>>
           /\ sorted[2] \notin Range(ranked)
           /\ ShareTime(sorted[2], sorted[1])
           /\ ~ ShareTime(sorted[3], sorted[1])

(* ------------------------------------------------------------------ *)
(* Properties of the runner for any budget (SpecRunnerAnyBudget)        *)
(* ------------------------------------------------------------------ *)

\* the call returned at the end of the loop
ReturnedExhausted ==
    /\ runPc = "returned"
    /\ runResult = [success |-> FALSE, output |-> <<"Max retries exceeded">>]

\* C33: with max_retries <= 0 the command is never executed and nothing is
\* slept, and the call returns (False, "Max retries exceeded"); no sleep
\* follows the last failed attempt, so a call with max_retries = n >= 1
\* that ends at the end of the loop has made n executions and n - 1 sleeps
C33_NoBudgetNoExecutionAndNoSleepAfterLast ==
    caller = "direct" =>
        /\ max_retries <= 0 =>
               /\ execs = 0
               /\ sleeps = << >>
               /\ runPc \in {"loop", "returned"}
               /\ runPc = "returned" => ReturnedExhausted
        /\ runPc = "sleep" => attempt < max_retries - 1
        /\ (ReturnedExhausted /\ max_retries >= 1) =>
               /\ execs = max_retries
               /\ Len(sleeps) = max_retries - 1

\* C33 witness: a call with a negative max_retries returned (False, "Max
\* retries exceeded") without an execution
C33_Witness ==
    /\ caller = "direct"
    /\ max_retries < 0
    /\ ReturnedExhausted
    /\ execs = 0
    /\ sleeps = << >>

\* a call with max_retries = 3 failed three times: three executions, the
\* sleeps 1 and 2 between them, none after the third
C33_FullExhaustionOfThree ==
    /\ caller = "direct"
    /\ max_retries = DefaultMaxRetries
    /\ ReturnedExhausted
    /\ execs = DefaultMaxRetries
    /\ sleeps = <<1, 2>>

====
